---- MODULE Spec2Model ----
(***************************************************************************)
(* Stock quote service of agent_summit_bazel_workshop: the rate-limit gate *)
(* of stock.Service, the symbol validation of stock.Client, and the        *)
(* demo-mode fallback of Service.GetCurrentPrice.                          *)
(*                                                                         *)
(* Time is counted in whole seconds of the monotonic clock.  A string is a *)
(* sequence of characters, each character written as a TLA+ string; the    *)
(* two-byte characters are written "e_acute" and "E_ACUTE".                *)
(***************************************************************************)
EXTENDS Integers, Sequences, FiniteSets, TLC

(***************************************************************************)
(* Bounds of the model.                                                    *)
(***************************************************************************)
\* goroutines that call GetCurrentPrice on the one Service instance
NumCallers == 3
\* the clock stops advancing here
MaxTime == 4
\* longest input string handed to the symbol validator
MaxInputLen == 6

Callers == 1..NumCallers

None == 0
Nil == [nil |-> TRUE]

(***************************************************************************)
(* Strings: strings.TrimSpace, strings.ToUpper, len.                       *)
(***************************************************************************)
UpperSeq == <<"A","B","C","D","E","F","G","H","I","J","K","L","M",
              "N","O","P","Q","R","S","T","U","V","W","X","Y","Z">>
LowerSeq == <<"a","b","c","d","e","f","g","h","i","j","k","l","m",
              "n","o","p","q","r","s","t","u","v","w","x","y","z">>

UpperChars == {UpperSeq[i] : i \in DOMAIN UpperSeq}
LowerChars == {LowerSeq[i] : i \in DOMAIN LowerSeq}

\* characters of more than one byte in UTF-8 (len counts bytes)
TwoByteChars == {"e_acute", "E_ACUTE"}

\* unicode.IsSpace for the characters used
IsSpace(ch) == ch \in {" ", "\t", "\n", "\r"}

\* the test of Client.ValidateSymbol's loop
IsLetter(ch) == ch \in UpperChars \/ ch \in LowerChars

ToUpperChar(ch) ==
    IF ch \in LowerChars
    THEN UpperSeq[CHOOSE i \in DOMAIN LowerSeq : LowerSeq[i] = ch]
    ELSE IF ch = "e_acute" THEN "E_ACUTE" ELSE ch

ToUpper(s) == [i \in DOMAIN s |-> ToUpperChar(s[i])]

RECURSIVE TrimLeft(_)
TrimLeft(s) ==
    IF s # <<>> /\ IsSpace(Head(s)) THEN TrimLeft(Tail(s)) ELSE s

RECURSIVE TrimRight(_)
TrimRight(s) ==
    IF s # <<>> /\ IsSpace(s[Len(s)])
    THEN TrimRight(SubSeq(s, 1, Len(s) - 1))
    ELSE s

TrimSpace(s) == TrimRight(TrimLeft(s))

RECURSIVE ByteLen(_)
ByteLen(s) ==
    IF s = <<>> THEN 0
    ELSE (IF Head(s) \in TwoByteChars THEN 2 ELSE 1) + ByteLen(Tail(s))

(***************************************************************************)
(* models.APIError                                                         *)
(***************************************************************************)
NewAPIError(service, message, code) ==
    [service |-> service, message |-> message, code |-> code]

(***************************************************************************)
(* Client.ValidateSymbol: Nil, or the error.                               *)
(***************************************************************************)
\* ValidateSymbol gone wrong: six characters are let through
ValidateSymbolUpToSix(symbol) ==
    LET s == TrimSpace(symbol) IN
    IF s = <<>>
    THEN NewAPIError("Stock", "Symbol cannot be empty", 400)
    ELSE IF ByteLen(s) < 1 \/ ByteLen(s) > 6
    THEN NewAPIError("Stock", "Symbol must be 1-5 characters long", 400)
    ELSE IF \E i \in DOMAIN s : ~IsLetter(s[i])
    THEN NewAPIError("Stock", "Symbol must contain only letters", 400)
    ELSE Nil

ValidateSymbol(symbol) ==
    LET s == TrimSpace(symbol) IN
    IF s = <<>>
    THEN NewAPIError("Stock", "Symbol cannot be empty", 400)
    ELSE IF ByteLen(s) < 1 \/ ByteLen(s) > 5
    THEN NewAPIError("Stock", "Symbol must be 1-5 characters long", 400)
    ELSE IF \E i \in DOMAIN s : ~IsLetter(s[i])
    THEN NewAPIError("Stock", "Symbol must contain only letters", 400)
    ELSE Nil

(***************************************************************************)
(* Service.ValidateAndNormalizeSymbol: fmt.Sprintf("%s", symbol) is the    *)
(* argument as it was passed.                                              *)
(***************************************************************************)
ValidateAndNormalizeSymbol(symbol) ==
    LET err == ValidateSymbol(symbol) IN
    IF err # Nil
    THEN [val |-> <<>>, err |-> err]
    ELSE [val |-> symbol, err |-> Nil]

(***************************************************************************)
(* Program constants.                                                      *)
(***************************************************************************)
\* const minDelay = 2 * time.Second
MinDelay == 2
\* the zero time.Time a new Service holds in lastRequest
ZeroTime == -1
\* time.Since of the zero time saturates at the largest Duration
MaxDuration == 2147483647

YahooSource == "Yahoo Finance"
DemoSource == "Demo Mode (Simulated Data)"

(***************************************************************************)
(* stock.DemoStockData: name, base price (cents), currency, market cap     *)
(* (billions).                                                             *)
(***************************************************************************)
SymDDOG == <<"D","D","O","G">>
SymAAPL == <<"A","A","P","L">>
SymGOOGL == <<"G","O","O","G","L">>
SymMSFT == <<"M","S","F","T">>
SymTSLA == <<"T","S","L","A">>

DemoStockData ==
    (SymDDOG :> [Name |-> "Datadog, Inc.", BasePrice |-> 12550,
                 Currency |-> "USD", MarketCap |-> 40]) @@
    (SymAAPL :> [Name |-> "Apple Inc.", BasePrice |-> 17525,
                 Currency |-> "USD", MarketCap |-> 2800]) @@
    (SymGOOGL :> [Name |-> "Alphabet Inc.", BasePrice |-> 14275,
                  Currency |-> "USD", MarketCap |-> 1800]) @@
    (SymMSFT :> [Name |-> "Microsoft Corporation", BasePrice |-> 41550,
                 Currency |-> "USD", MarketCap |-> 3100]) @@
    (SymTSLA :> [Name |-> "Tesla, Inc.", BasePrice |-> 24875,
                 Currency |-> "USD", MarketCap |-> 790])

(***************************************************************************)
(* generateDemoStockResponse / GetDemoStock, at wall-clock hour `hour`.    *)
(***************************************************************************)
\* DemoMarketState gone wrong: the regular session includes hour 16
DemoMarketStateRegularThrough16(hour) ==
    IF hour >= 9 /\ hour <= 16 THEN "REGULAR"
    ELSE IF hour >= 4 /\ hour < 9 THEN "PRE"
    ELSE IF hour >= 16 /\ hour < 20 THEN "POST"
    ELSE "CLOSED"

DemoMarketState(hour) ==
    IF hour >= 9 /\ hour < 16 THEN "REGULAR"
    ELSE IF hour >= 4 /\ hour < 9 THEN "PRE"
    ELSE IF hour >= 16 /\ hour < 20 THEN "POST"
    ELSE "CLOSED"

GetDemoStock(symbol, hour) ==
    IF symbol \notin DOMAIN DemoStockData
    THEN [stock |-> Nil,
          err |-> NewAPIError("Demo Stock",
                              "Stock symbol not found in demo data", 404)]
    ELSE [stock |-> [Symbol |-> symbol,
                     CompanyName |-> DemoStockData[symbol].Name,
                     MarketCap |-> DemoStockData[symbol].MarketCap,
                     MarketState |-> DemoMarketState(hour),
                     Currency |-> DemoStockData[symbol].Currency,
                     Source |-> DemoSource],
          err |-> Nil]

(***************************************************************************)
(* models.ConvertYahooFinanceResponse on a decoded body.                   *)
(***************************************************************************)
\* ConvertMarketState gone wrong: the upstream string is kept
ConvertMarketStateAsIs(ms) == ms

ConvertMarketState(ms) ==
    CASE ms = "REGULAR" -> "REGULAR"
      [] ms = "PRE" -> "PRE"
      [] ms = "POST" -> "POST"
      [] ms = "CLOSED" -> "CLOSED"
      [] OTHER -> "CLOSED"

ConvertYahooFinanceResponse(response) ==
    IF Len(response.Result) = 0
    THEN [stock |-> Nil,
          err |-> NewAPIError("Yahoo Finance", "No stock data found", 404)]
    ELSE LET result == response.Result[1] IN
         [stock |-> [Symbol |-> result.Symbol,
                     CompanyName |-> IF result.LongName = ""
                                     THEN result.ShortName
                                     ELSE result.LongName,
                     MarketCap |-> result.MarketCap,
                     MarketState |-> ConvertMarketState(result.MarketState),
                     Currency |-> result.Currency,
                     Change |-> result.Change,
                     Source |-> YahooSource],
          err |-> Nil]

(***************************************************************************)
(* StockResponse.IsPositiveChange and StockResponse.GetChangeDirection, on *)
(* the quote's change in cents.                                            *)
(***************************************************************************)
IsPositiveChange(change) == change > 0

\* GetChangeDirection gone wrong: no change counts as up
GetChangeDirectionZeroUp(change) ==
    IF change >= 0 THEN "up"
    ELSE IF change < 0 THEN "down"
    ELSE "neutral"

GetChangeDirection(change) ==
    IF change > 0 THEN "up"
    ELSE IF change < 0 THEN "down"
    ELSE "neutral"

(***************************************************************************)
(* Client.GetStockPrice.  RequestSymbol is the symbol put in the request   *)
(* URL; HandleResponse is what follows httpClient.Get, on the transport's  *)
(* answer `r`.                                                             *)
(***************************************************************************)
RequestSymbol(symbol) == ToUpper(TrimSpace(symbol))

\* PrepareRequest gone wrong: the trimmed symbol is requested as typed
PrepareRequestAsTyped(symbol) ==
    LET err == ValidateSymbol(symbol) IN
    IF err # Nil
    THEN [send |-> FALSE, err |-> err, symbol |-> <<>>]
    ELSE [send |-> TRUE, err |-> Nil, symbol |-> TrimSpace(symbol)]

\* Client.GetStockPriceWithValidation up to httpClient.Get: the error it
\* returns without a request, or the symbol it requests
PrepareRequest(symbol) ==
    LET err == ValidateSymbol(symbol) IN
    IF err # Nil
    THEN [send |-> FALSE, err |-> err, symbol |-> <<>>]
    ELSE IF TrimSpace(symbol) = <<>>
    THEN [send |-> FALSE,
          err |-> NewAPIError("Stock", "Symbol cannot be empty", 400),
          symbol |-> <<>>]
    ELSE [send |-> TRUE, err |-> Nil, symbol |-> RequestSymbol(symbol)]

\* Client.GetStockPrice up to httpClient.Get, called directly: only the
\* empty check stands before the request
GetStockPriceRequest(symbol) ==
    IF TrimSpace(symbol) = <<>>
    THEN [send |-> FALSE,
          err |-> NewAPIError("Stock", "Symbol cannot be empty", 400),
          symbol |-> <<>>]
    ELSE [send |-> TRUE, err |-> Nil, symbol |-> RequestSymbol(symbol)]

HandleResponse(r) ==
    IF r.kind = "neterr"
    THEN [stock |-> Nil,
          err |-> NewAPIError("Yahoo Finance", "Failed to make request", 500)]
    ELSE IF r.code # 200
    THEN [stock |-> Nil,
          err |-> NewAPIError("Yahoo Finance", "API returned status", r.code)]
    ELSE IF ~r.decodable
    THEN [stock |-> Nil,
          err |-> NewAPIError("Yahoo Finance", "Failed to parse response", 500)]
    ELSE ConvertYahooFinanceResponse(r.body)

(***************************************************************************)
(* Service.GetCurrentPrice after the fetch: the fallback decision.         *)
(***************************************************************************)
\* IsFallbackCode gone wrong: 403 is not among the codes
IsFallbackCodeWithout403(code) ==
    code = 401 \/ code = 429 \/ code >= 500

\* IsFallbackCode gone wrong: every client error falls back too
IsFallbackCodeFrom400(code) ==
    code >= 400

IsFallbackCode(code) ==
    code = 401 \/ code = 403 \/ code = 429 \/ code >= 500

\* FallbackOrError gone wrong: the demo generator's error is returned
FallbackReturnsDemoError(symbol, fetched, hour) ==
    IF fetched.err # Nil
    THEN IF IsFallbackCode(fetched.err.code)
         THEN LET demo == GetDemoStock(symbol, hour) IN
              IF demo.err # Nil
              THEN [stock |-> Nil, err |-> demo.err, demoTried |-> TRUE]
              ELSE [stock |-> demo.stock, err |-> Nil, demoTried |-> TRUE]
         ELSE [stock |-> Nil, err |-> fetched.err, demoTried |-> FALSE]
    ELSE [stock |-> fetched.stock, err |-> Nil, demoTried |-> FALSE]

\* FallbackOrError gone wrong: the demo quote is returned together with the
\* original error
FallbackReturnsBoth(symbol, fetched, hour) ==
    IF fetched.err # Nil
    THEN IF IsFallbackCode(fetched.err.code)
         THEN LET demo == GetDemoStock(symbol, hour) IN
              IF demo.err # Nil
              THEN [stock |-> Nil, err |-> fetched.err, demoTried |-> TRUE]
              ELSE [stock |-> demo.stock, err |-> fetched.err,
                    demoTried |-> TRUE]
         ELSE [stock |-> Nil, err |-> fetched.err, demoTried |-> FALSE]
    ELSE [stock |-> fetched.stock, err |-> Nil, demoTried |-> FALSE]

\* FallbackOrError gone wrong: the demo table is searched for the
\* normalized symbol
FallbackLooksUpNormalized(symbol, fetched, hour) ==
    IF fetched.err # Nil
    THEN IF IsFallbackCode(fetched.err.code)
         THEN LET demo == GetDemoStock(RequestSymbol(symbol), hour) IN
              IF demo.err # Nil
              THEN [stock |-> Nil, err |-> fetched.err, demoTried |-> TRUE]
              ELSE [stock |-> demo.stock, err |-> Nil, demoTried |-> TRUE]
         ELSE [stock |-> Nil, err |-> fetched.err, demoTried |-> FALSE]
    ELSE [stock |-> fetched.stock, err |-> Nil, demoTried |-> FALSE]

FallbackOrError(symbol, fetched, hour) ==
    IF fetched.err # Nil
    THEN IF IsFallbackCode(fetched.err.code)
         THEN LET demo == GetDemoStock(symbol, hour) IN
              IF demo.err # Nil
              THEN [stock |-> Nil, err |-> fetched.err, demoTried |-> TRUE]
              ELSE [stock |-> demo.stock, err |-> Nil, demoTried |-> TRUE]
         ELSE [stock |-> Nil, err |-> fetched.err, demoTried |-> FALSE]
    ELSE [stock |-> fetched.stock, err |-> Nil, demoTried |-> FALSE]

(***************************************************************************)
(* Inputs: the symbols callers pass, the answers the quote provider's      *)
(* transport gives, the wall-clock hours.                                  *)
(***************************************************************************)
CallSymbols ==
    { SymDDOG,                          \* a demo symbol as the table spells it
      <<"d","d","o","g">>,              \* accepted, normalizes to a demo symbol
      <<" ","T","S","L","A"," ">>,      \* accepted after trimming
      SymAAPL, SymGOOGL, SymMSFT, SymTSLA,
      <<"Z","Z">>,                      \* accepted, not a demo symbol
      <<>>,                             \* empty
      <<" "," ">>,                      \* whitespace only
      <<"T","O","O","L","O","N","G">>,  \* too long
      <<"D","D","0","G">> }             \* a digit

StatusCodes == {200, 204, 400, 401, 403, 404, 429, 500, 503}

UpstreamMarketStates == {"REGULAR", "PRE", "POST", "CLOSED", "", "PREPRE"}

Quote(sym, ms) ==
    [Symbol |-> sym, ShortName |-> "short", LongName |-> "",
     MarketCap |-> 1, Currency |-> "USD", MarketState |-> ms,
     Change |-> -123]                  \* regularMarketChange, in cents

\* the answers to a request for `sym`
Responses(sym) ==
    { [kind |-> "neterr", code |-> 0, decodable |-> FALSE,
       body |-> [Result |-> <<>>]] }
    \cup { [kind |-> "http", code |-> c, decodable |-> FALSE,
            body |-> [Result |-> <<>>]] : c \in StatusCodes }
    \cup { [kind |-> "http", code |-> 200, decodable |-> TRUE,
            body |-> [Result |-> <<>>]] }
    \cup { [kind |-> "http", code |-> 200, decodable |-> TRUE,
            body |-> [Result |-> <<Quote(sym, ms)>>]] :
              ms \in UpstreamMarketStates }

NoResponse ==
    [kind |-> "none", code |-> 0, decodable |-> FALSE,
     body |-> [Result |-> <<>>]]

NoResult == [stock |-> Nil, err |-> Nil, demoTried |-> FALSE]

(***************************************************************************)
(* State.                                                                  *)
(***************************************************************************)
VARIABLES
    now,          \* the clock
    lastRequest,  \* Service.lastRequest
    mutex,        \* Service.mutex: the caller holding it, or None
    pc,           \* where each caller is in GetCurrentPrice
    symbol,       \* each caller's argument
    timeRead,     \* the lastRequest a caller in the gate read
    wake,         \* until when a caller in the gate sleeps
    resp,         \* the transport's answer to a caller's request
    result,       \* what GetCurrentPrice returned to a caller
    gateLog,      \* history: the passages of the gate, in order
    requests,     \* history: the outbound requests, in order
    input,        \* the string handed to the validator
    output,       \* what the validator returned
    wpc,          \* where the weather request is
    wreq,         \* the weather request under way, or the last one
    wprev,        \* history: the weather request before it
    demoLog       \* history: the calls of the demo generator

vars == <<now, lastRequest, mutex, pc, symbol, timeRead, wake, resp, result,
          gateLog, requests, input, output, wpc, wreq, wprev, demoLog>>

valVars == <<input, output>>

wxVars == <<wpc, wreq, wprev>>

svcVars == <<now, lastRequest, mutex, pc, symbol, timeRead,
             wake, resp, result, gateLog, requests>>


NoOutput ==
    [op |-> "none", val |-> <<>>, err |-> Nil, sent |-> <<>>, stock |-> Nil]

\* NewService: lastRequest is the zero time, the mutex is unlocked
InitService ==
    /\ now = 0
    /\ lastRequest = ZeroTime
    /\ mutex = None
    /\ pc = [c \in Callers |-> "idle"]
    /\ symbol = [c \in Callers |-> <<>>]
    /\ timeRead = [c \in Callers |-> ZeroTime]
    /\ wake = [c \in Callers |-> 0]
    /\ resp = [c \in Callers |-> NoResponse]
    /\ result = [c \in Callers |-> NoResult]
    /\ gateLog = <<>>
    /\ requests = <<>>

\* no weather request has been made, the demo generator was not called
NoRequest ==
    [op |-> "none", location |-> <<>>, calls |-> <<>>,
     georesp |-> NoResponse, wresp |-> NoResponse,
     geocoded |-> [coords |-> Nil, country |-> "", err |-> Nil],
     weather |-> Nil, summary |-> Nil, err |-> Nil]

InitIdle ==
    /\ wpc = "idle"
    /\ wreq = NoRequest
    /\ wprev = NoRequest
    /\ demoLog = <<>>

Init ==
    /\ InitService
    /\ input = <<>>
    /\ output = NoOutput
    /\ InitIdle

(***************************************************************************)
(* time.Since(s.lastRequest)                                               *)
(***************************************************************************)
TimeSince(t) == IF t = ZeroTime THEN MaxDuration ELSE now - t

(***************************************************************************)
(* Service.GetCurrentPrice, step by step.                                  *)
(***************************************************************************)
\* Call gone wrong: the symbol is validated before the gate, and a
\* rejected call returns without passing it
CallValidatesFirst(c, sym) ==
    /\ pc[c] = "idle"
    /\ symbol' = [symbol EXCEPT ![c] = sym]
    /\ IF ValidateSymbol(sym) # Nil
       THEN /\ pc' = [pc EXCEPT ![c] = "done"]
            /\ result' = [result EXCEPT ![c] =
                            [stock |-> Nil, err |-> ValidateSymbol(sym),
                             demoTried |-> FALSE]]
       ELSE /\ pc' = [pc EXCEPT ![c] = "lock"]
            /\ result' = result
    /\ UNCHANGED <<now, lastRequest, mutex, timeRead, wake, resp,
                   gateLog, requests, valVars,
                   wxVars, demoLog>>

\* a goroutine enters GetCurrentPrice(sym) and reaches s.mutex.Lock()
Call(c, sym) ==
    /\ pc[c] = "idle"
    /\ pc' = [pc EXCEPT ![c] = "lock"]
    /\ symbol' = [symbol EXCEPT ![c] = sym]
    /\ UNCHANGED <<now, lastRequest, mutex, timeRead, wake, resp, result,
                   gateLog, requests, valVars,
                   wxVars, demoLog>>

\* Lock gone wrong: the lock is taken although another caller holds it
LockWithoutExclusion(c) ==
    /\ pc[c] = "lock"
    /\ mutex' = c
    /\ pc' = [pc EXCEPT ![c] = "since"]
    /\ UNCHANGED <<now, lastRequest, symbol, timeRead, wake,
                   resp, result, gateLog, requests, valVars,
                   wxVars, demoLog>>

\* rateLimitDelay: s.mutex.Lock()
Lock(c) ==
    /\ pc[c] = "lock"
    /\ mutex = None
    /\ mutex' = c
    /\ pc' = [pc EXCEPT ![c] = "since"]
    /\ UNCHANGED <<now, lastRequest, symbol, timeRead, wake,
                   resp, result, gateLog, requests, valVars,
                   wxVars, demoLog>>

\* Since gone wrong: the sleep is one second short of the remaining window
SinceSleepsTooShort(c) ==
    /\ pc[c] = "since"
    /\ timeRead' = [timeRead EXCEPT ![c] = lastRequest]
    /\ LET timeSinceLastRequest == TimeSince(lastRequest) IN
       IF timeSinceLastRequest < MinDelay
       THEN /\ wake' = [wake EXCEPT ![c] =
                          now + (MinDelay - timeSinceLastRequest) - 1]
            /\ pc' = [pc EXCEPT ![c] = "sleep"]
       ELSE /\ wake' = wake
            /\ pc' = [pc EXCEPT ![c] = "update"]
    /\ UNCHANGED <<now, lastRequest, mutex, symbol, resp,
                   result, gateLog, requests, valVars,
                   wxVars, demoLog>>

\* Since gone wrong: the lock is released for the time of the sleep
SinceSleepsUnlocked(c) ==
    /\ pc[c] = "since"
    /\ timeRead' = [timeRead EXCEPT ![c] = lastRequest]
    /\ LET timeSinceLastRequest == TimeSince(lastRequest) IN
       IF timeSinceLastRequest < MinDelay
       THEN /\ wake' = [wake EXCEPT ![c] =
                          now + (MinDelay - timeSinceLastRequest)]
            /\ pc' = [pc EXCEPT ![c] = "sleep"]
            /\ mutex' = None
       ELSE /\ wake' = wake
            /\ pc' = [pc EXCEPT ![c] = "update"]
            /\ mutex' = mutex
    /\ UNCHANGED <<now, lastRequest, symbol, resp,
                   result, gateLog, requests, valVars,
                   wxVars, demoLog>>

\* rateLimitDelay: timeSinceLastRequest and the decision to sleep
Since(c) ==
    /\ pc[c] = "since"
    /\ timeRead' = [timeRead EXCEPT ![c] = lastRequest]
    /\ LET timeSinceLastRequest == TimeSince(lastRequest) IN
       IF timeSinceLastRequest < MinDelay
       THEN /\ wake' = [wake EXCEPT ![c] = now + (MinDelay - timeSinceLastRequest)]
            /\ pc' = [pc EXCEPT ![c] = "sleep"]
       ELSE /\ wake' = wake
            /\ pc' = [pc EXCEPT ![c] = "update"]
    /\ UNCHANGED <<now, lastRequest, mutex, symbol, resp,
                   result, gateLog, requests, valVars,
                   wxVars, demoLog>>

\* rateLimitDelay: time.Sleep(sleepTime) returns, no earlier than asked
Sleep(c) ==
    /\ pc[c] = "sleep"
    /\ now >= wake[c]
    /\ pc' = [pc EXCEPT ![c] = "update"]
    /\ UNCHANGED <<now, lastRequest, mutex, symbol, timeRead,
                   wake, resp, result, gateLog, requests, valVars,
                   wxVars, demoLog>>

\* Update gone wrong: the lock is released on the path through the sleep
\* only
UpdateUnlocksAfterSleepOnly(c) ==
    /\ pc[c] = "update"
    /\ lastRequest' = now
    /\ mutex' = IF wake[c] # 0 THEN None ELSE mutex
    /\ gateLog' = Append(gateLog,
                         [caller |-> c, read |-> timeRead[c],
                          slept |-> wake[c] # 0, at |-> now])
    /\ timeRead' = [timeRead EXCEPT ![c] = ZeroTime]
    /\ wake' = [wake EXCEPT ![c] = 0]
    /\ pc' = [pc EXCEPT ![c] = "fetch"]
    /\ UNCHANGED <<now, symbol, resp, result, requests,
                   valVars,
                   wxVars, demoLog>>

\* Update gone wrong: the lock is kept for the outbound request
UpdateKeepsLock(c) ==
    /\ pc[c] = "update"
    /\ lastRequest' = now
    /\ gateLog' = Append(gateLog,
                         [caller |-> c, read |-> timeRead[c],
                          slept |-> wake[c] # 0, at |-> now])
    /\ timeRead' = [timeRead EXCEPT ![c] = ZeroTime]
    /\ wake' = [wake EXCEPT ![c] = 0]
    /\ pc' = [pc EXCEPT ![c] = "fetch"]
    /\ UNCHANGED <<now, mutex, symbol, resp, result, requests,
                   valVars,
                   wxVars, demoLog>>

\* rateLimitDelay: s.lastRequest = time.Now(), and the deferred Unlock
Update(c) ==
    /\ pc[c] = "update"
    /\ lastRequest' = now
    /\ mutex' = None
    /\ gateLog' = Append(gateLog,
                         [caller |-> c, read |-> timeRead[c],
                          slept |-> wake[c] # 0, at |-> now])
    /\ timeRead' = [timeRead EXCEPT ![c] = ZeroTime]
    /\ wake' = [wake EXCEPT ![c] = 0]
    /\ pc' = [pc EXCEPT ![c] = "fetch"]
    /\ UNCHANGED <<now, symbol, resp, result, requests,
                   valVars,
                   wxVars, demoLog>>

\* Client.GetStockPriceWithValidation: ValidateSymbol, then GetStockPrice up
\* to httpClient.Get
Fetch(c) ==
    /\ pc[c] = "fetch"
    /\ LET req == PrepareRequest(symbol[c]) IN
       IF req.send
       THEN /\ requests' = Append(requests, [caller |-> c, at |-> now,
                                             symbol |-> req.symbol])
            /\ pc' = [pc EXCEPT ![c] = "http"]
            /\ result' = result
       ELSE /\ result' = [result EXCEPT ![c] =
                            FallbackOrError(symbol[c],
                                            [stock |-> Nil, err |-> req.err],
                                            0)]
            /\ pc' = [pc EXCEPT ![c] = "done"]
            /\ requests' = requests
    /\ UNCHANGED <<now, lastRequest, mutex, symbol, timeRead,
                   wake, resp, gateLog, valVars,
                   wxVars, demoLog>>

\* Respond gone wrong: a failed fetch is issued once more
RespondRetries(c, r, hour) ==
    /\ pc[c] = "http"
    /\ resp' = [resp EXCEPT ![c] = r]
    /\ result' = [result EXCEPT ![c] =
                    FallbackOrError(symbol[c], HandleResponse(r), hour)]
    /\ pc' = [pc EXCEPT ![c] = IF HandleResponse(r).err # Nil
                                THEN "fetch" ELSE "done"]
    /\ UNCHANGED <<now, lastRequest, mutex, symbol, timeRead,
                   wake, gateLog, requests, valVars,
                   wxVars, demoLog>>

\* httpClient.Get returns `r`; GetStockPrice maps it; GetCurrentPrice falls
\* back to demo data or returns
Respond(c, r, hour) ==
    /\ pc[c] = "http"
    /\ resp' = [resp EXCEPT ![c] = r]
    /\ result' = [result EXCEPT ![c] =
                    FallbackOrError(symbol[c], HandleResponse(r), hour)]
    /\ pc' = [pc EXCEPT ![c] = "done"]
    /\ UNCHANGED <<now, lastRequest, mutex, symbol, timeRead,
                   wake, gateLog, requests, valVars,
                   wxVars, demoLog>>

\* the clock advances
Tick ==
    /\ now < MaxTime
    /\ now' = now + 1
    /\ UNCHANGED <<lastRequest, mutex, pc, symbol, timeRead,
                   wake, resp, result, gateLog, requests, valVars,
                   wxVars, demoLog>>

(***************************************************************************)
(* Spec: NumCallers concurrent callers of GetCurrentPrice("DDOG"), each    *)
(* answered with a quote.  The callers are alike, so they are taken to     *)
(* enter in the order of their numbers.                                    *)
(***************************************************************************)
GateSymbols == {SymDDOG}

GateResponses(sym) ==
    { r \in Responses(sym) :
        /\ r.code = 200 /\ r.decodable /\ Len(r.body.Result) = 1
        /\ r.body.Result[1].MarketState = "REGULAR" }

GateHours == {10}

CallInOrder(c, sym) ==
    /\ \A d \in Callers : d < c => pc[d] # "idle"
    /\ Call(c, sym)

Next ==
    \/ \E c \in Callers, sym \in GateSymbols : CallInOrder(c, sym)
    \/ \E c \in Callers : Lock(c)
    \/ \E c \in Callers : Since(c)
    \/ \E c \in Callers : Sleep(c)
    \/ \E c \in Callers : Update(c)
    \/ \E c \in Callers : Fetch(c)
    \/ \E c \in Callers, hour \in GateHours :
         \E r \in GateResponses(RequestSymbol(symbol[c])) :
            Respond(c, r, hour)
    \/ Tick

Spec == Init /\ [][Next]_vars

(***************************************************************************)
(* SpecFetch: caller 1 passes every argument and gets every answer at an   *)
(* hour of every band, while caller 2 competes for the gate with one       *)
(* request.                                                                *)
(***************************************************************************)
FetchCallers == {1, 2}

FetchSymbols(c) == IF c = 1 THEN CallSymbols ELSE {SymDDOG}

FetchResponses(c, sym) ==
    IF c = 1 THEN Responses(sym)
    ELSE {r \in Responses(sym) : r.code = 404}

FetchHours == {2, 6, 12, 18}

NextFetch ==
    \/ \E c \in FetchCallers : \E sym \in FetchSymbols(c) : Call(c, sym)
    \/ \E c \in FetchCallers : Lock(c)
    \/ \E c \in FetchCallers : Since(c)
    \/ \E c \in FetchCallers : Sleep(c)
    \/ \E c \in FetchCallers : Update(c)
    \/ \E c \in FetchCallers : Fetch(c)
    \/ \E c \in FetchCallers, hour \in FetchHours :
         \E r \in FetchResponses(c, RequestSymbol(symbol[c])) :
            Respond(c, r, hour)
    \/ Tick

SpecFetch == Init /\ [][NextFetch]_vars

(***************************************************************************)
(* SpecValidate: the symbol operations of Client and Service as functions  *)
(* of their argument, on every string of at most MaxInputLen characters    *)
(* over InputChars.                                                        *)
(***************************************************************************)
InputChars == {"D", "g", "0", " ", "e_acute"}

InputStrings == UNION {[1..n -> InputChars] : n \in 0..MaxInputLen}

InitValidate ==
    /\ InitService
    /\ input \in InputStrings
    /\ output = NoOutput
    /\ InitIdle

\* Client.ValidateSymbol(input)
DoValidateSymbol ==
    /\ output.op = "none"
    /\ output' = [op |-> "ValidateSymbol", val |-> <<>>,
                  err |-> ValidateSymbol(input), sent |-> <<>>, stock |-> Nil]
    /\ UNCHANGED <<svcVars, input, wxVars, demoLog>>

\* Service.ValidateAndNormalizeSymbol(input)
DoValidateAndNormalizeSymbol ==
    /\ output.op = "none"
    /\ output' = [op |-> "ValidateAndNormalizeSymbol",
                  val |-> ValidateAndNormalizeSymbol(input).val,
                  err |-> ValidateAndNormalizeSymbol(input).err,
                  sent |-> <<>>, stock |-> Nil]
    /\ UNCHANGED <<svcVars, input, wxVars, demoLog>>

\* Client.GetStockPriceWithValidation(input), the transport answering `r`
\* to the request if one is made: the result, and the symbols requested
DoGetStockPriceWithValidation ==
    /\ output.op = "none"
    /\ LET req == PrepareRequest(input) IN
       IF req.send
       THEN \E r \in Responses(req.symbol) :
              output' = [op |-> "GetStockPriceWithValidation", val |-> <<>>,
                         err |-> HandleResponse(r).err,
                         sent |-> <<req.symbol>>,
                         stock |-> HandleResponse(r).stock]
       ELSE output' = [op |-> "GetStockPriceWithValidation", val |-> <<>>,
                       err |-> req.err, sent |-> <<>>, stock |-> Nil]
    /\ UNCHANGED <<svcVars, input, wxVars, demoLog>>

\* Client.GetStockPrice(input), called directly
DoGetStockPrice ==
    /\ output.op = "none"
    /\ LET req == GetStockPriceRequest(input) IN
       IF req.send
       THEN \E r \in Responses(req.symbol) :
              output' = [op |-> "GetStockPrice", val |-> <<>>,
                         err |-> HandleResponse(r).err,
                         sent |-> <<req.symbol>>,
                         stock |-> HandleResponse(r).stock]
       ELSE output' = [op |-> "GetStockPrice", val |-> <<>>,
                       err |-> req.err, sent |-> <<>>, stock |-> Nil]
    /\ UNCHANGED <<svcVars, input, wxVars, demoLog>>

\* Service.GetCurrentPrice(input) by a single caller on a new service: the
\* gate does not sleep and records the time, then the fetch and the fallback
DoGetCurrentPrice ==
    /\ output.op = "none"
    /\ lastRequest = ZeroTime
    /\ mutex = None
    /\ lastRequest' = now
    /\ LET req == PrepareRequest(input) IN
       IF req.send
       THEN \E r \in Responses(req.symbol), hour \in FetchHours :
              LET res == FallbackOrError(input, HandleResponse(r), hour) IN
              output' = [op |-> "GetCurrentPrice", val |-> <<>>,
                         err |-> res.err, sent |-> <<req.symbol>>,
                         stock |-> res.stock]
       ELSE output' = [op |-> "GetCurrentPrice", val |-> <<>>,
                       err |-> FallbackOrError(input,
                                   [stock |-> Nil, err |-> req.err], 0).err,
                       sent |-> <<>>, stock |-> Nil]
    /\ UNCHANGED <<now, mutex, pc, symbol, timeRead, wake, resp, result,
                   gateLog, requests, input, wxVars, demoLog>>

NextValidate ==
    \/ DoValidateSymbol
    \/ DoValidateAndNormalizeSymbol
    \/ DoGetStockPriceWithValidation
    \/ DoGetStockPrice
    \/ DoGetCurrentPrice

SpecValidate == InitValidate /\ [][NextValidate]_vars

(***************************************************************************)
(* The weather side: models.GetWeatherCondition, the Geocoder, the weather *)
(* Client and Service, and the handlers' status.  Latitudes and longitudes *)
(* are in units of 1/100000 degree; a request carries them with 4 decimals.*)
(***************************************************************************)
ToLowerChar(ch) ==
    IF ch \in UpperChars
    THEN LowerSeq[CHOOSE i \in DOMAIN UpperSeq : UpperSeq[i] = ch]
    ELSE IF ch = "E_ACUTE" THEN "e_acute" ELSE ch

ToLower(s) == [i \in DOMAIN s |-> ToLowerChar(s[i])]

\* WeatherCodeMap
WeatherCodeMap ==
    0  :> [Condition |-> "clear",         Description |-> "Clear sky"] @@
    1  :> [Condition |-> "partly_cloudy", Description |-> "Mainly clear"] @@
    2  :> [Condition |-> "partly_cloudy", Description |-> "Partly cloudy"] @@
    3  :> [Condition |-> "cloudy",        Description |-> "Overcast"] @@
    45 :> [Condition |-> "fog",           Description |-> "Fog"] @@
    48 :> [Condition |-> "fog",     Description |-> "Depositing rime fog"] @@
    51 :> [Condition |-> "drizzle",       Description |-> "Light drizzle"] @@
    53 :> [Condition |-> "drizzle",     Description |-> "Moderate drizzle"] @@
    55 :> [Condition |-> "drizzle",       Description |-> "Dense drizzle"] @@
    61 :> [Condition |-> "rain",          Description |-> "Slight rain"] @@
    63 :> [Condition |-> "rain",          Description |-> "Moderate rain"] @@
    65 :> [Condition |-> "rain",          Description |-> "Heavy rain"] @@
    71 :> [Condition |-> "snow",     Description |-> "Slight snow fall"] @@
    73 :> [Condition |-> "snow",    Description |-> "Moderate snow fall"] @@
    75 :> [Condition |-> "snow",       Description |-> "Heavy snow fall"] @@
    95 :> [Condition |-> "thunderstorm", Description |-> "Thunderstorm"] @@
    96 :> [Condition |-> "thunderstorm",
           Description |-> "Thunderstorm with slight hail"] @@
    99 :> [Condition |-> "thunderstorm",
           Description |-> "Thunderstorm with heavy hail"]

UnknownCondition ==
    [Condition |-> "unknown", Description |-> "Unknown weather condition"]

\* GetWeatherCondition gone wrong: a code outside the table is read as the
\* nearest code below it
GetWeatherConditionNearest(code) ==
    IF \E k \in DOMAIN WeatherCodeMap : k <= code
    THEN WeatherCodeMap[CHOOSE k \in DOMAIN WeatherCodeMap :
                          /\ k <= code
                          /\ \A j \in DOMAIN WeatherCodeMap :
                                j <= code => j <= k]
    ELSE UnknownCondition

GetWeatherCondition(code) ==
    IF code \in DOMAIN WeatherCodeMap
    THEN WeatherCodeMap[code]
    ELSE UnknownCondition

\* fmt.Sprintf("%.4f", x) of x given in 1/100000: the value in 1/10000
Format4(x) == IF x >= 0 THEN (x + 5) \div 10 ELSE -((5 - x) \div 10)

\* ConvertOpenMeteoResponse
ConvertOpenMeteoResponse(response, city, country, coords) ==
    [City |-> city,
     Country |-> country,
     Temperature |-> response.Temperature2m,
     Condition |-> GetWeatherCondition(response.WeatherCode).Condition,
     Description |-> GetWeatherCondition(response.WeatherCode).Description,
     IsDay |-> response.IsDay = 1,
     Coordinates |-> coords,
     Source |-> "Open-Meteo"]

(***************************************************************************)
(* geocode.go                                                              *)
(***************************************************************************)
CityStuttgart == <<"s","t","u","t","t","g","a","r","t">>
CityBerlin == <<"b","e","r","l","i","n">>
CityMunich == <<"m","u","n","i","c","h">>
CityLondon == <<"l","o","n","d","o","n">>
CityParis == <<"p","a","r","i","s">>
CityNewYork == <<"n","e","w"," ","y","o","r","k">>

\* CityCoordinates
CityCoordinates ==
    CityStuttgart :> [Coords |-> [Latitude |-> 4877580, Longitude |-> 918290],
                      Country |-> "Germany"] @@
    CityBerlin :> [Coords |-> [Latitude |-> 5252000, Longitude |-> 1340500],
                   Country |-> "Germany"] @@
    CityMunich :> [Coords |-> [Latitude |-> 4813510, Longitude |-> 1158200],
                   Country |-> "Germany"] @@
    CityLondon :> [Coords |-> [Latitude |-> 5150740, Longitude |-> -12780],
                   Country |-> "United Kingdom"] @@
    CityParis :> [Coords |-> [Latitude |-> 4885660, Longitude |-> 235220],
                  Country |-> "France"] @@
    CityNewYork :> [Coords |-> [Latitude |-> 4071280, Longitude |-> -7400600],
                    Country |-> "United States"]

NoGeocode == [coords |-> Nil, country |-> "", err |-> Nil]

\* HandleGeocodeResponse gone wrong: the last result is taken
HandleGeocodeResponseLast(r) ==
    IF r.kind = "neterr"
    THEN [coords |-> Nil, country |-> "",
          err |-> NewAPIError("Geocoding", "Failed to make request", 500)]
    ELSE IF r.code # 200
    THEN [coords |-> Nil, country |-> "",
          err |-> NewAPIError("Geocoding", "API returned status", r.code)]
    ELSE IF ~r.decodable
    THEN [coords |-> Nil, country |-> "",
          err |-> NewAPIError("Geocoding", "Failed to parse response", 500)]
    ELSE IF Len(r.body.Results) = 0
    THEN [coords |-> Nil, country |-> "",
          err |-> NewAPIError("Geocoding", "City not found", 404)]
    ELSE LET last == r.body.Results[Len(r.body.Results)] IN
         [coords |-> [Latitude |-> last.Latitude,
                      Longitude |-> last.Longitude],
          country |-> last.Country,
          err |-> Nil]

\* Geocoder.GetCoordinates after g.client.Get, on the transport's answer `r`
HandleGeocodeResponse(r) ==
    IF r.kind = "neterr"
    THEN [coords |-> Nil, country |-> "",
          err |-> NewAPIError("Geocoding", "Failed to make request", 500)]
    ELSE IF r.code # 200
    THEN [coords |-> Nil, country |-> "",
          err |-> NewAPIError("Geocoding", "API returned status", r.code)]
    ELSE IF ~r.decodable
    THEN [coords |-> Nil, country |-> "",
          err |-> NewAPIError("Geocoding", "Failed to parse response", 500)]
    ELSE IF Len(r.body.Results) = 0
    THEN [coords |-> Nil, country |-> "",
          err |-> NewAPIError("Geocoding", "City not found", 404)]
    ELSE [coords |-> [Latitude |-> r.body.Results[1].Latitude,
                      Longitude |-> r.body.Results[1].Longitude],
          country |-> r.body.Results[1].Country,
          err |-> Nil]

\* CacheKey gone wrong: the city is looked up as typed
CacheKeyAsTyped(city) == TrimSpace(city)

\* GetCoordinatesWithCache: the cache key of a city, and the cached entry
CacheKey(city) == ToLower(TrimSpace(city))

CacheHit(city) == CacheKey(city) \in DOMAIN CityCoordinates

CachedGeocode(city) ==
    [coords |-> CityCoordinates[CacheKey(city)].Coords,
     country |-> CityCoordinates[CacheKey(city)].Country,
     err |-> Nil]

\* the request of Geocoder.GetCoordinates and of Client.GetWeatherByCoordinates
GeocodeCall(city) == [to |-> "geocoding", name |-> city, latitude |-> 0,
                      longitude |-> 0]

WeatherCallFor(coords) ==
    [to |-> "open-meteo", name |-> <<>>,
     latitude |-> Format4(coords.Latitude),
     longitude |-> Format4(coords.Longitude)]

(***************************************************************************)
(* weather Client and Service                                              *)
(***************************************************************************)
MinLocationLen == 2
MaxLocationLen == 100

\* Service.ValidateLocation
ValidateLocation(location) ==
    IF location = <<>>
    THEN NewAPIError("Weather Service", "Location cannot be empty", 400)
    ELSE IF ByteLen(location) < MinLocationLen
    THEN NewAPIError("Weather Service",
                     "Location must be at least 2 characters long", 400)
    ELSE IF ByteLen(location) > MaxLocationLen
    THEN NewAPIError("Weather Service",
                     "Location must be less than 100 characters", 400)
    ELSE Nil

\* Client.GetWeatherByCoordinates after c.httpClient.Get
HandleWeatherResponse(r, coords, city, country) ==
    IF r.kind = "neterr"
    THEN [weather |-> Nil,
          err |-> NewAPIError("Open-Meteo", "Failed to make request", 500)]
    ELSE IF r.code # 200
    THEN [weather |-> Nil,
          err |-> NewAPIError("Open-Meteo", "API returned status", r.code)]
    ELSE IF ~r.decodable
    THEN [weather |-> Nil,
          err |-> NewAPIError("Open-Meteo", "Failed to parse response", 500)]
    ELSE [weather |-> ConvertOpenMeteoResponse(r.body, city, country, coords),
          err |-> Nil]

\* Service.GetWeatherSummary: the parts of the summary line
Summary(weather) ==
    [City |-> weather.City, Country |-> weather.Country,
     Temperature |-> weather.Temperature,
     Description |-> weather.Description,
     TimeOfDay |-> IF weather.IsDay THEN "during the day"
                   ELSE "during the night"]

\* the handlers' status for a service result
HandlerStatus(err) == IF err = Nil THEN 200 ELSE err.code

(***************************************************************************)
(* A weather request, from its entry to the first outbound call.  The      *)
(* entries are Service.GetWeatherWithValidation (what Handler.GetWeather   *)
(* calls), Service.GetWeatherSummary (what Handler.GetWeatherSummary       *)
(* calls, through GetCurrentWeather and Client.GetWeather),                *)
(* Client.GetWeatherByCity, Geocoder.GetCoordinatesWithCache and           *)
(* Geocoder.GetCoordinates.                                                *)
(***************************************************************************)
GeocoderOps == {"GetCoordinates", "GetCoordinatesWithCache"}

ServiceOps == {"GetWeatherWithValidation", "GetWeatherSummary"}

WeatherOps == ServiceOps \cup {"GetWeatherByCity"} \cup GeocoderOps

Enter(op, loc) ==
    LET base == [NoRequest EXCEPT !.op = op, !.location = loc]
        Fail(e) == [pc |-> "done", req |-> [base EXCEPT !.err = e]]
        \* Geocoder.GetCoordinates up to g.client.Get
        GetCoordinates ==
            IF TrimSpace(loc) = <<>>
            THEN [pc |-> "done",
                  req |-> [base EXCEPT
                     !.err = NewAPIError("Geocoding",
                                         "City name cannot be empty", 400),
                     !.geocoded.err = NewAPIError("Geocoding",
                                         "City name cannot be empty", 400)]]
            ELSE [pc |-> "geo",
                  req |-> [base EXCEPT !.calls = <<GeocodeCall(loc)>>]]
        \* Geocoder.GetCoordinatesWithCache, and Client.GetWeatherByCity
        \* up to c.httpClient.Get when the cache answers
        GetCoordinatesWithCache ==
            IF CacheHit(loc)
            THEN IF op \in GeocoderOps
                 THEN [pc |-> "done",
                       req |-> [base EXCEPT !.geocoded = CachedGeocode(loc)]]
                 ELSE [pc |-> "weather",
                       req |-> [base EXCEPT
                          !.geocoded = CachedGeocode(loc),
                          !.calls =
                             <<WeatherCallFor(CachedGeocode(loc).coords)>>]]
            ELSE GetCoordinates
        \* Client.GetWeather
        GetWeather ==
            IF loc = <<>>
            THEN Fail(NewAPIError("Weather", "Location cannot be empty", 400))
            ELSE GetCoordinatesWithCache
    IN  CASE op = "GetWeatherWithValidation" ->
                IF ValidateLocation(loc) # Nil
                THEN Fail(ValidateLocation(loc))
                ELSE GetWeather
          [] op = "GetWeatherSummary" -> GetWeather
          [] op = "GetWeatherByCity" -> GetCoordinatesWithCache
          [] op = "GetCoordinatesWithCache" -> GetCoordinatesWithCache
          [] op = "GetCoordinates" -> GetCoordinates

\* a weather request is made
WeatherCall(op, loc) ==
    /\ wpc = "idle"
    /\ wpc' = Enter(op, loc).pc
    /\ wreq' = Enter(op, loc).req
    /\ UNCHANGED <<svcVars, valVars, wprev, demoLog>>

\* WeatherRepeat gone wrong: the reading of the request before is kept and
\* returned to the same request without a call
WeatherRepeatCached(op, loc) ==
    /\ wpc = "done"
    /\ wprev = NoRequest
    /\ wprev' = wreq
    /\ IF wreq.op = op /\ wreq.location = loc /\ wreq.err = Nil
       THEN /\ wpc' = "done"
            /\ wreq' = [wreq EXCEPT !.calls = <<>>]
       ELSE /\ wpc' = Enter(op, loc).pc
            /\ wreq' = Enter(op, loc).req
    /\ UNCHANGED <<svcVars, valVars, demoLog>>

\* a weather request is made after another has returned
WeatherRepeat(op, loc) ==
    /\ wpc = "done"
    /\ wprev = NoRequest
    /\ wprev' = wreq
    /\ wpc' = Enter(op, loc).pc
    /\ wreq' = Enter(op, loc).req
    /\ UNCHANGED <<svcVars, valVars, demoLog>>

\* GeocodeRespond gone wrong: the geocoder's error is wrapped as a weather
\* error
GeocodeRespondWrapped(r) ==
    /\ wpc = "geo"
    /\ LET g == HandleGeocodeResponse(r) IN
       IF wreq.op \in GeocoderOps
       THEN /\ wpc' = "done"
            /\ wreq' = [wreq EXCEPT !.georesp = r, !.geocoded = g,
                                    !.err = g.err]
       ELSE IF g.err # Nil
       THEN /\ wpc' = "done"
            /\ wreq' = [wreq EXCEPT !.georesp = r, !.geocoded = g,
                          !.err = NewAPIError("Open-Meteo", g.err.message,
                                              500)]
       ELSE /\ wpc' = "weather"
            /\ wreq' = [wreq EXCEPT !.georesp = r, !.geocoded = g,
                          !.calls = Append(@, WeatherCallFor(g.coords))]
    /\ UNCHANGED <<svcVars, valVars, wprev, demoLog>>

\* g.client.Get returns `r`: Geocoder.GetCoordinates maps it, and
\* Client.GetWeatherByCity returns its error or goes on to the weather request
GeocodeRespond(r) ==
    /\ wpc = "geo"
    /\ LET g == HandleGeocodeResponse(r) IN
       IF wreq.op \in GeocoderOps \/ g.err # Nil
       THEN /\ wpc' = "done"
            /\ wreq' = [wreq EXCEPT !.georesp = r, !.geocoded = g,
                                    !.err = g.err]
       ELSE /\ wpc' = "weather"
            /\ wreq' = [wreq EXCEPT !.georesp = r, !.geocoded = g,
                          !.calls = Append(@, WeatherCallFor(g.coords))]
    /\ UNCHANGED <<svcVars, valVars, wprev, demoLog>>

\* WeatherRespond gone wrong: a failed weather request is made once more
WeatherRespondRetries(r) ==
    /\ wpc = "weather"
    /\ LET w == HandleWeatherResponse(r, wreq.geocoded.coords, wreq.location,
                                      wreq.geocoded.country) IN
       IF w.err # Nil /\ wreq.wresp = NoResponse
       THEN /\ wreq' = [wreq EXCEPT
                          !.wresp = r,
                          !.calls = Append(@, WeatherCallFor(
                                                wreq.geocoded.coords))]
            /\ wpc' = "weather"
       ELSE /\ wreq' = [wreq EXCEPT
                          !.wresp = r,
                          !.weather = w.weather,
                          !.summary = IF wreq.op = "GetWeatherSummary"
                                         /\ w.err = Nil
                                      THEN Summary(w.weather) ELSE Nil,
                          !.err = w.err]
            /\ wpc' = "done"
    /\ UNCHANGED <<svcVars, valVars, wprev, demoLog>>

\* c.httpClient.Get returns `r`: Client.GetWeatherByCoordinates maps it, the
\* Service returns the reading or the summary
WeatherRespond(r) ==
    /\ wpc = "weather"
    /\ LET w == HandleWeatherResponse(r, wreq.geocoded.coords, wreq.location,
                                      wreq.geocoded.country) IN
       wreq' = [wreq EXCEPT
                  !.wresp = r,
                  !.weather = w.weather,
                  !.summary = IF wreq.op = "GetWeatherSummary" /\ w.err = Nil
                              THEN Summary(w.weather) ELSE Nil,
                  !.err = w.err]
    /\ wpc' = "done"
    /\ UNCHANGED <<svcVars, valVars, wprev, demoLog>>

(***************************************************************************)
(* SpecWeather: one weather request on every location of WeatherLocations  *)
(* through every entry, the transports answering in every way; then one    *)
(* more lookup of Stuttgart.                                               *)
(***************************************************************************)
MaxWeatherCode == 100

WeatherCodes == -1..MaxWeatherCode

LocStuttgart == <<"S","t","u","t","t","g","a","r","t">>
LocAtlantis == <<"A","t","l","a","n","t","i","s">>

WeatherLocations ==
    { <<>>, <<" ">>, <<" ", " ">>, <<"S">>, <<"N","Y">>, <<"e_acute">>,
      LocStuttgart, CityStuttgart,
      <<" ","S","T","U","T","T","G","A","R","T"," ">>,
      <<"N","e","w"," ","Y","o","r","k">>,
      LocAtlantis,
      [i \in 1..MaxLocationLen |-> "a"],
      [i \in 1..(MaxLocationLen + 1) |-> "a"] }

GeocodeResult(country, lat, lon) ==
    [Country |-> country, Latitude |-> lat, Longitude |-> lon]

GeocodeResults ==
    { <<>>,
      <<GeocodeResult("Utopia", 1234567, -7654321)>>,
      <<GeocodeResult("Utopia", 1234567, -7654321),
        GeocodeResult("Elsewhere", 100000, 200000)>> }

GeocodeResponses ==
    {[kind |-> "neterr", code |-> 0, decodable |-> FALSE,
      body |-> [Results |-> <<>>]]}
    \cup {[kind |-> "http", code |-> c, decodable |-> FALSE,
           body |-> [Results |-> <<>>]] : c \in StatusCodes}
    \cup {[kind |-> "http", code |-> 200, decodable |-> TRUE,
           body |-> [Results |-> rs]] : rs \in GeocodeResults}

Current(code, isDay) ==
    [Temperature2m |-> 225, WeatherCode |-> code, IsDay |-> isDay]

WeatherResponses ==
    {[kind |-> "neterr", code |-> 0, decodable |-> FALSE,
      body |-> Current(0, 0)]}
    \cup {[kind |-> "http", code |-> c, decodable |-> FALSE,
           body |-> Current(0, 0)] : c \in StatusCodes}
    \cup {[kind |-> "http", code |-> 200, decodable |-> TRUE,
           body |-> Current(k, 1)] : k \in WeatherCodes}
    \cup {[kind |-> "http", code |-> 200, decodable |-> TRUE,
           body |-> Current(0, 0)]}

RepeatOps == {"GetWeatherWithValidation"}

RepeatLocations == {LocStuttgart}

\* the lookup of Stuttgart is made once more
RepeatLookup(op, loc) ==
    /\ wreq.op \in RepeatOps
    /\ wreq.location \in RepeatLocations
    /\ WeatherRepeat(op, loc)

NextWeather ==
    \/ \E op \in WeatherOps, loc \in WeatherLocations : WeatherCall(op, loc)
    \/ \E op \in RepeatOps, loc \in RepeatLocations : RepeatLookup(op, loc)
    \/ \E r \in GeocodeResponses : GeocodeRespond(r)
    \/ \E r \in WeatherResponses : WeatherRespond(r)

SpecWeather == Init /\ [][NextWeather]_vars

(***************************************************************************)
(* generateDemoStockResponse: the simulated values.  The generator         *)
(* rand.New(rand.NewSource(seed)) is a fixed sequence per seed; Draw(seed, *)
(* k) stands for its k-th draw, in thousandths of the unit interval.       *)
(* Prices are in cents, the change percent in hundredths of a percent.     *)
(***************************************************************************)
Draw(seed, k) == (seed * 7919 + k * 104729 + 12345) % 1000

Seed(sym, hour, minute) == hour * 60 + minute + ByteLen(sym)

SimulatedValues(sym, seed, hour) ==
    LET base == DemoStockData[sym].BasePrice
        \* (r.Float64() - 0.5) * 0.1 and (r.Float64() - 0.5) * 0.08, in
        \* ten-thousandths
        variation == Draw(seed, 1) - 500
        yesterdayVariation == ((Draw(seed, 2) - 500) * 8) \div 10
        currentPrice == (base * (10000 + variation)) \div 10000
        yesterdayPrice == (base * (10000 + yesterdayVariation)) \div 10000
        change == currentPrice - yesterdayPrice
    IN  [Price |-> currentPrice,
         PreviousClose |-> yesterdayPrice,
         Change |-> change,
         ChangePercent |-> (change * 10000) \div yesterdayPrice,
         Volume |-> 500000 + Draw(seed, 3) * 2000,
         MarketState |-> DemoMarketState(hour)]

\* the values of one call at hour:minute
GenerateDemoValues(sym, hour, minute) ==
    IF sym \notin DOMAIN DemoStockData
    THEN Nil
    ELSE SimulatedValues(sym, Seed(sym, hour, minute), hour)

(***************************************************************************)
(* SpecDemo: up to MaxDemoCalls calls of GetDemoStock, each at a wall      *)
(* clock time of DemoHours x DemoMinutes.                                  *)
(***************************************************************************)
MaxDemoCalls == 2

DemoHours == {3, 9, 23}

DemoMinutes == {0, 59}

DemoCallSymbols == DOMAIN DemoStockData \cup {<<"Z","Z">>, <<"d","d","o","g">>}

\* DemoCall gone wrong: one generator is shared by all calls, so the draws
\* of a call depend on the calls before it
DemoCallSharedSource(sym, hour, minute) ==
    /\ Len(demoLog) < MaxDemoCalls
    /\ demoLog' = Append(demoLog,
          [symbol |-> sym, hour |-> hour, minute |-> minute,
           stock |-> GetDemoStock(sym, hour).stock,
           err |-> GetDemoStock(sym, hour).err,
           values |-> IF sym \notin DOMAIN DemoStockData THEN Nil
                      ELSE SimulatedValues(sym,
                              Seed(sym, hour, minute) + Len(demoLog), hour)])
    /\ UNCHANGED <<svcVars, valVars, wxVars>>

\* GetDemoStock(sym) is called when the wall clock reads hour:minute
DemoCall(sym, hour, minute) ==
    /\ Len(demoLog) < MaxDemoCalls
    /\ demoLog' = Append(demoLog,
          [symbol |-> sym, hour |-> hour, minute |-> minute,
           stock |-> GetDemoStock(sym, hour).stock,
           err |-> GetDemoStock(sym, hour).err,
           values |-> GenerateDemoValues(sym, hour, minute)])
    /\ UNCHANGED <<svcVars, valVars, wxVars>>

NextDemo ==
    \E sym \in DemoCallSymbols, hour \in DemoHours, minute \in DemoMinutes :
        DemoCall(sym, hour, minute)

SpecDemo == Init /\ [][NextDemo]_vars

(***************************************************************************)
(* SpecClock: one call of GetDemoStock at every hour of the day.           *)
(***************************************************************************)
HoursOfDay == 0..23

\* the first call of the generator, the wall clock reading hour:minute
DemoCallOnce(sym, hour, minute) ==
    /\ demoLog = <<>>
    /\ DemoCall(sym, hour, minute)

NextClock ==
    \E sym \in DemoCallSymbols, hour \in HoursOfDay, minute \in DemoMinutes :
        DemoCallOnce(sym, hour, minute)

SpecClock == Init /\ [][NextClock]_vars

(***************************************************************************)
(* SpecQuote: the two methods of a quote, asked of a quote mapped from an  *)
(* upstream answer with every change of Changes and of a simulated quote.  *)
(***************************************************************************)
Changes == {-123, -1, 0, 1, 234}

\* quote.IsPositiveChange() and quote.GetChangeDirection()
Methods(op, stock, change) ==
    [op |-> op, val |-> <<>>, err |-> Nil, sent |-> <<>>, stock |-> stock,
     change |-> change,
     positive |-> IsPositiveChange(change),
     direction |-> GetChangeDirection(change)]

\* the methods of the quote mapped from an answer with regularMarketChange
\* `change`
AskMapped(sym, ms, change) ==
    /\ output.op = "none"
    /\ LET body == [Result |-> <<[Quote(sym, ms) EXCEPT !.Change = change]>>]
           quote == ConvertYahooFinanceResponse(body).stock
       IN  output' = Methods("mapped", quote, quote.Change)
    /\ UNCHANGED <<svcVars, input, wxVars, demoLog>>

\* the methods of the quote simulated for `sym` at hour:minute
AskSimulated(sym, hour, minute) ==
    /\ output.op = "none"
    /\ output' = Methods("simulated", GetDemoStock(sym, hour).stock,
                         GenerateDemoValues(sym, hour, minute).Change)
    /\ UNCHANGED <<svcVars, input, wxVars, demoLog>>

NextQuote ==
    \/ \E sym \in DOMAIN DemoStockData, ms \in UpstreamMarketStates,
          change \in Changes : AskMapped(sym, ms, change)
    \/ \E sym \in DOMAIN DemoStockData, hour \in DemoHours,
          minute \in DemoMinutes : AskSimulated(sym, hour, minute)

SpecQuote == Init /\ [][NextQuote]_vars

(***************************************************************************)
(* SpecBurst: TestService_ConcurrentRateLimiting.  NumGoroutines callers   *)
(* of GetCurrentPrice("DDOG") on one new service start within the first    *)
(* second, 50 ms apart, and each is answered with a quote.  The callers    *)
(* are alike, so they are taken to enter, and to be granted the lock, in   *)
(* the order of their numbers.                                             *)
(***************************************************************************)
NumGoroutines == 5

BurstCallers == 1..NumGoroutines

\* the time by which the last of the callers can have passed the gate
BurstMaxTime == (NumGoroutines - 1) * MinDelay

InitBurst ==
    /\ now = 0
    /\ lastRequest = ZeroTime
    /\ mutex = None
    /\ pc = [c \in BurstCallers |-> "idle"]
    /\ symbol = [c \in BurstCallers |-> <<>>]
    /\ timeRead = [c \in BurstCallers |-> ZeroTime]
    /\ wake = [c \in BurstCallers |-> 0]
    /\ resp = [c \in BurstCallers |-> NoResponse]
    /\ result = [c \in BurstCallers |-> NoResult]
    /\ gateLog = <<>>
    /\ requests = <<>>
    /\ input = <<>>
    /\ output = NoOutput
    /\ InitIdle

\* the goroutine's start := time.Now() and its call, in the first second
BurstCall(c) ==
    /\ now = 0
    /\ \A d \in BurstCallers : d < c => pc[d] # "idle"
    /\ Call(c, SymDDOG)

\* s.mutex.Lock(), granted in the order of arrival
BurstLock(c) ==
    /\ \A d \in BurstCallers : d < c => pc[d] \in {"fetch", "http", "done"}
    /\ Lock(c)

\* the clock advances once every caller sleeps, waits for the lock, waits
\* for the transport or has returned: the other steps of a call take far
\* less than a second
BurstTick ==
    /\ now < BurstMaxTime
    /\ \A c \in BurstCallers :
          \/ pc[c] \in {"http", "done"}
          \/ pc[c] = "sleep" /\ wake[c] > now
          \/ pc[c] = "lock" /\ mutex # None
    /\ now' = now + 1
    /\ UNCHANGED <<lastRequest, mutex, pc, symbol, timeRead,
                   wake, resp, result, gateLog, requests, valVars,
                   wxVars, demoLog>>

NextBurst ==
    \/ \E c \in BurstCallers : BurstCall(c)
    \/ \E c \in BurstCallers : BurstLock(c)
    \/ \E c \in BurstCallers : Since(c)
    \/ \E c \in BurstCallers : Sleep(c)
    \/ \E c \in BurstCallers : Update(c)
    \/ \E c \in BurstCallers : Fetch(c)
    \/ \E c \in BurstCallers, hour \in GateHours :
         \E r \in GateResponses(RequestSymbol(symbol[c])) :
            Respond(c, r, hour)
    \/ BurstTick

SpecBurst == InitBurst /\ [][NextBurst]_vars

(***************************************************************************)
(* SpecMixed: weather and stock requests interleaved.  Two callers ask for *)
(* the quote of DDOG, each answered with a quote or with 503; a weather    *)
(* request for a city of the table, for one outside it or for a blank      *)
(* location is made and then made again, the transports answering with     *)
(* success or with an error.                                               *)
(***************************************************************************)
MixedResponses(sym) ==
    GateResponses(sym)
    \cup {r \in Responses(sym) : r.kind = "http" /\ r.code = 503}

MixedOps == {"GetWeatherWithValidation"}

LocBlank == <<" ", " ">>

MixedLocations == {LocStuttgart, LocAtlantis, LocBlank}

MixedGeocodeResponses ==
    {r \in GeocodeResponses :
        r.kind = "http" /\ r.code \in {200, 404} /\ Len(r.body.Results) < 2}

MixedWeatherResponses ==
    {r \in WeatherResponses :
        r.kind = "http" /\ r.code \in {200, 500} /\ r.body = Current(0, 0)}

\* the same request is made once more
SameAgain(op, loc) ==
    /\ wreq.op = op
    /\ wreq.location = loc
    /\ WeatherRepeat(op, loc)

NextMixed ==
    \/ \E c \in FetchCallers, sym \in GateSymbols : CallInOrder(c, sym)
    \/ \E c \in FetchCallers : Lock(c)
    \/ \E c \in FetchCallers : Since(c)
    \/ \E c \in FetchCallers : Sleep(c)
    \/ \E c \in FetchCallers : Update(c)
    \/ \E c \in FetchCallers : Fetch(c)
    \/ \E c \in FetchCallers, hour \in GateHours :
         \E r \in MixedResponses(RequestSymbol(symbol[c])) :
            Respond(c, r, hour)
    \/ Tick
    \/ \E op \in MixedOps, loc \in MixedLocations : WeatherCall(op, loc)
    \/ \E op \in MixedOps, loc \in MixedLocations : SameAgain(op, loc)
    \/ \E r \in MixedGeocodeResponses : GeocodeRespond(r)
    \/ \E r \in MixedWeatherResponses : WeatherRespond(r)

SpecMixed == Init /\ [][NextMixed]_vars

(***************************************************************************)
(* SpecLive: NumCallers concurrent callers of GetCurrentPrice, all started *)
(* in the first second.  Caller 1 passes a symbol that is accepted or one  *)
(* that is rejected and is answered with a quote or with 503; the others   *)
(* ask for DDOG and get a quote.  Every goroutine that can take a step     *)
(* takes it in the end, the transport answers every request in the end,    *)
(* the mutex is granted to every caller that keeps asking for it, and the  *)
(* clock advances.                                                         *)
(***************************************************************************)
LiveSymbols(c) ==
    IF c = 1 THEN {SymDDOG, <<"D","D","0","G">>} ELSE {SymDDOG}

LiveResponses(c, sym) ==
    IF c = 1 THEN MixedResponses(sym) ELSE GateResponses(sym)

\* the time by which the last of the callers can have left the gate
LiveMaxTime == NumCallers * MinDelay

\* a call is made in the first second
LiveCall(c, sym) ==
    /\ now = 0
    /\ CallInOrder(c, sym)

\* the clock advances once every caller started sleeps, waits for the
\* lock, waits for the transport or has returned: the other steps of a call
\* take far less than a second
LiveTick ==
    /\ now < LiveMaxTime
    /\ \A c \in Callers :
          \/ pc[c] \in {"idle", "http", "done"}
          \/ pc[c] = "sleep" /\ wake[c] > now
          \/ pc[c] = "lock" /\ mutex # None
    /\ now' = now + 1
    /\ UNCHANGED <<lastRequest, mutex, pc, symbol, timeRead,
                   wake, resp, result, gateLog, requests, valVars,
                   wxVars, demoLog>>

\* the transport answers c
Answer(c) ==
    \E hour \in GateHours :
       \E r \in LiveResponses(c, RequestSymbol(symbol[c])) :
          Respond(c, r, hour)

NextLive ==
    \/ \E c \in Callers : \E sym \in LiveSymbols(c) : LiveCall(c, sym)
    \/ \E c \in Callers : Lock(c)
    \/ \E c \in Callers : Since(c)
    \/ \E c \in Callers : Sleep(c)
    \/ \E c \in Callers : Update(c)
    \/ \E c \in Callers : Fetch(c)
    \/ \E c \in Callers : Answer(c)
    \/ LiveTick

\* the step of c that is not the taking of the lock; at most one of the
\* five is enabled at a time
Proceed(c) == Since(c) \/ Sleep(c) \/ Update(c) \/ Fetch(c) \/ Answer(c)

Fairness ==
    /\ \A c \in Callers : SF_vars(Lock(c))
    /\ \A c \in Callers : WF_vars(Proceed(c))
    /\ WF_vars(LiveTick)

SpecLive == Init /\ [][NextLive]_vars /\ Fairness

(***************************************************************************)
(* The rate-limit gate.                                                    *)
(***************************************************************************)
\* caller c is between Lock and Unlock of rateLimitDelay
InGate(c) == pc[c] \in {"since", "sleep", "update"}

\* C1: any two outbound requests to the quote provider are issued at least
\* MinDelay seconds apart, whichever callers and symbols they come from.
C1_RequestsMinDelayApart ==
    \A i, j \in DOMAIN requests :
        i < j => requests[j].at - requests[i].at >= MinDelay

\* C2: a caller that reads a last-call time less than MinDelay seconds old
\* blocks until the window has elapsed: it records its own call time, and
\* issues its outbound request, no earlier than the time it read plus
\* MinDelay; the last-call time is then the time it recorded.
C2_SecondCallWaits ==
    /\ \A c \in Callers :
          pc[c] = "sleep" => wake[c] >= timeRead[c] + MinDelay
    /\ \A c \in Callers :
          pc[c] = "update" =>
             timeRead[c] = ZeroTime \/ now >= timeRead[c] + MinDelay
    /\ \A j \in DOMAIN gateLog :
          gateLog[j].read # ZeroTime =>
             gateLog[j].at >= gateLog[j].read + MinDelay
    /\ \A q \in DOMAIN requests :
          \E j \in DOMAIN gateLog :
             /\ gateLog[j].caller = requests[q].caller
             /\ requests[q].at >= gateLog[j].at
             /\ gateLog[j].read # ZeroTime =>
                   requests[q].at >= gateLog[j].read + MinDelay
    /\ gateLog # <<>> => lastRequest = gateLog[Len(gateLog)].at

\* a second caller read the first caller's call time, slept, recorded its own
\* time and issued its request, the first caller having returned
C2_Witness ==
    \E j \in DOMAIN gateLog, q \in DOMAIN requests :
        /\ j >= 2
        /\ gateLog[j].slept
        /\ gateLog[j].read = gateLog[j - 1].at
        /\ pc[gateLog[j - 1].caller] = "done"
        /\ requests[q].caller = gateLog[j].caller
        /\ lastRequest = gateLog[j].at

\* C3: at most one caller is in the read / sleep / update section, and it
\* holds the mutex; no two callers read the same last-call value; values
\* recorded one after the other are at least MinDelay apart.
C3_GateMutualExclusion ==
    /\ \A c, d \in Callers : InGate(c) /\ InGate(d) => c = d
    /\ \A c \in Callers : InGate(c) => mutex = c
    /\ \A i, j \in DOMAIN gateLog :
          i # j => gateLog[i].read # gateLog[j].read
    /\ \A c \in Callers :
          pc[c] \in {"sleep", "update"} =>
             \A j \in DOMAIN gateLog : gateLog[j].read # timeRead[c]
    /\ \A j \in DOMAIN gateLog :
          j >= 2 => gateLog[j].at >= gateLog[j - 1].at + MinDelay

\* two values were recorded and the third caller, having read the second,
\* sleeps in the gate
C3_Witness ==
    /\ Len(gateLog) = 2
    /\ \E c \in Callers : pc[c] = "sleep"

\* C4: a sleeping caller holds the lock and nobody passes the gate while it
\* sleeps; the k-th passage of the gate is no earlier than MinDelay * (k - 1)
\* seconds after the first.
C4_SleepHoldsLock ==
    /\ [](\A c \in Callers :
            pc[c] = "sleep" =>
               mutex = c /\ \A d \in Callers \ {c} : ~InGate(d))
    /\ [](\A k \in DOMAIN gateLog :
            gateLog[k].at >= gateLog[1].at + MinDelay * (k - 1))
    /\ [][\A c \in Callers :
            pc[c] = "sleep" =>
               /\ gateLog' = gateLog
               /\ lastRequest' = lastRequest
               /\ mutex' = mutex]_vars

\* three callers passed the gate, the second and the third after sleeping
C4_Witness ==
    /\ Len(gateLog) = 3
    /\ gateLog[2].slept
    /\ gateLog[3].slept
    /\ Cardinality({gateLog[k].caller : k \in 1..3}) = 3
    /\ gateLog[3].at >= gateLog[1].at + MinDelay * 2

(***************************************************************************)
(* The fallback to demo data.                                              *)
(***************************************************************************)
DemoSymbols == DOMAIN DemoStockData

\* what GetStockPriceWithValidation returned to caller c, which is done
Fetched(c) ==
    IF PrepareRequest(symbol[c]).send
    THEN HandleResponse(resp[c])
    ELSE [stock |-> Nil, err |-> PrepareRequest(symbol[c]).err]

FetchFailed(c) == pc[c] = "done" /\ Fetched(c).err # Nil

RecoveredCode(code) == code \in {401, 403, 429} \/ code >= 500

\* C5: a failed fetch with code 401, 403, 429 or >= 500 for one of the five
\* demo symbols is not propagated: no error, and a simulated quote for the
\* same symbol with the demo source.
C5_DemoFallback ==
    \A c \in Callers :
        ( /\ FetchFailed(c)
          /\ RecoveredCode(Fetched(c).err.code)
          /\ symbol[c] \in DemoSymbols )
        => /\ result[c].err = Nil
           /\ result[c].stock # Nil
           /\ result[c].stock.Symbol = symbol[c]
           /\ result[c].stock.Source = DemoSource

\* a 403 for GOOGL gave a demo quote for GOOGL
C5_Witness ==
    \E c \in Callers :
        /\ pc[c] = "done"
        /\ symbol[c] = SymGOOGL
        /\ resp[c].kind = "http"
        /\ resp[c].code = 403
        /\ result[c].err = Nil
        /\ result[c].stock.Symbol = SymGOOGL
        /\ result[c].stock.Source = DemoSource

\* C6: a failed fetch with any other code returns the original error and no
\* quote, whatever the symbol, and the demo generator is not called.
C6_OtherCodesPropagate ==
    \A c \in Callers :
        ( /\ FetchFailed(c)
          /\ ~RecoveredCode(Fetched(c).err.code) )
        => /\ result[c].stock = Nil
           /\ result[c].err = Fetched(c).err
           /\ ~result[c].demoTried

\* a 404 for a demo symbol came back as the 404
C6_Witness ==
    \E c \in Callers :
        /\ pc[c] = "done"
        /\ symbol[c] = SymDDOG
        /\ resp[c].kind = "http"
        /\ resp[c].code = 404
        /\ result[c].stock = Nil
        /\ result[c].err = NewAPIError("Yahoo Finance", "API returned status",
                                       404)

\* C7: with a recovered code and a symbol outside the demo table, the demo
\* generator fails with its 404 and the original error is returned, not the
\* generator's error and not a quote.
C7_NonDemoSymbolKeepsError ==
    \A c \in Callers :
        ( /\ FetchFailed(c)
          /\ RecoveredCode(Fetched(c).err.code)
          /\ symbol[c] \notin DemoSymbols )
        => /\ \A hour \in FetchHours :
                 /\ GetDemoStock(symbol[c], hour).stock = Nil
                 /\ GetDemoStock(symbol[c], hour).err =
                       NewAPIError("Demo Stock",
                                   "Stock symbol not found in demo data", 404)
           /\ result[c].demoTried
           /\ result[c].stock = Nil
           /\ result[c].err = Fetched(c).err

\* a 503 for ZZ came back as the 503
C7_Witness ==
    \E c \in Callers :
        /\ pc[c] = "done"
        /\ symbol[c] = <<"Z","Z">>
        /\ resp[c].kind = "http"
        /\ resp[c].code = 503
        /\ result[c].stock = Nil
        /\ result[c].err = NewAPIError("Yahoo Finance", "API returned status",
                                       503)

\* the kinds of error a fetch produces, by how they arise
IsInvalidInput(c) == ~PrepareRequest(symbol[c]).send
IsNotFoundEmpty(c) ==
    /\ PrepareRequest(symbol[c]).send
    /\ resp[c].kind = "http" /\ resp[c].code = 200 /\ resp[c].decodable
    /\ Len(resp[c].body.Result) = 0
IsParseError(c) ==
    /\ PrepareRequest(symbol[c]).send
    /\ resp[c].kind = "http" /\ resp[c].code = 200 /\ ~resp[c].decodable

\* C8: InvalidInput, NotFound for an empty result list and ParseError for an
\* undecodable body reach the caller of GetCurrentPrice unchanged, for demo
\* symbols too; only upstream errors with a recovered code give a demo quote.
C8_OtherKindsPropagate ==
    \A c \in Callers :
        ( /\ FetchFailed(c)
          /\ IsInvalidInput(c) \/ IsNotFoundEmpty(c) \/ IsParseError(c) )
        => /\ result[c].stock = Nil
           /\ result[c].err = Fetched(c).err

(***************************************************************************)
(* The symbol operations.                                                  *)
(***************************************************************************)
\* ^[A-Za-z]{1,5}$
MatchesSymbolPattern(s) ==
    /\ Len(s) \in 1..5
    /\ \A i \in DOMAIN s : s[i] \in UpperChars \cup LowerChars

Rejected400 ==
    /\ output.err # Nil
    /\ output.err.code = 400
    /\ output.stock = Nil

\* C9: ValidateAndNormalizeSymbol returns the upper-case trimmed form and no
\* error for a string matching ^[A-Za-z]{1,5}$, and fails with code 400 for
\* every other string.
C9_ValidateAndNormalize ==
    output.op = "ValidateAndNormalizeSymbol" =>
        IF MatchesSymbolPattern(input)
        THEN output.err = Nil /\ output.val = ToUpper(TrimSpace(input))
        ELSE Rejected400

MatchesUpperPattern(s) ==
    /\ Len(s) \in 1..5
    /\ \A i \in DOMAIN s : s[i] \in UpperChars

FetcherOps == {"GetStockPrice", "GetStockPriceWithValidation",
               "GetCurrentPrice"}

\* C11 as stated: whichever operation was called, every symbol requested
\* from the quote provider matches ^[A-Z]{1,5}$.
C11_RequestSymbolMatchesPattern ==
    output.op \in FetcherOps =>
        \A i \in DOMAIN output.sent : MatchesUpperPattern(output.sent[i])

\* C11, amended: every symbol requested is non-empty, trimmed and upper
\* case; it matches ^[A-Z]{1,5}$ when the call went through
\* GetStockPriceWithValidation, as GetCurrentPrice does.
C11_RequestSymbolNormalized ==
    output.op \in FetcherOps =>
        \A i \in DOMAIN output.sent :
            LET s == output.sent[i] IN
            /\ s # <<>>
            /\ s = ToUpper(TrimSpace(input))
            /\ TrimSpace(s) = s
            /\ ToUpper(s) = s
            /\ output.op # "GetStockPrice" => MatchesUpperPattern(s)

\* GetCurrentPrice(" gD ") requested GD
C11_Witness ==
    /\ output.op = "GetCurrentPrice"
    /\ input = <<" ", "g", "D", " ">>
    /\ output.sent = << <<"G", "D">> >>

\* the requests caller c has issued
RequestsOf(c) == {i \in DOMAIN requests : requests[i].caller = c}

\* C12: one GetCurrentPrice call issues at most one request, in every state
\* its caller can reach: exactly one while the transport has not answered,
\* none added by the time the call has ended; and a call that returns a
\* quote after a failed fetch returns the demo quote.
C12_AtMostOneRequest ==
    \A c \in Callers :
        /\ Cardinality(RequestsOf(c)) <= 1
        /\ pc[c] = "http" => Cardinality(RequestsOf(c)) = 1
        /\ pc[c] = "done" =>
               Cardinality(RequestsOf(c)) =
                  IF PrepareRequest(symbol[c]).send THEN 1 ELSE 0
        /\ (FetchFailed(c) /\ result[c].err = Nil) =>
               /\ result[c].demoTried
               /\ result[c].stock.Source = DemoSource

\* a call failed with 503 for a symbol without demo data, ended with the
\* error, and its one request is the only one in the log
C12_Witness ==
    /\ pc[1] = "done"
    /\ resp[1].kind = "http"
    /\ resp[1].code = 503
    /\ result[1].err # Nil
    /\ result[1].demoTried
    /\ Cardinality(RequestsOf(1)) = 1
    /\ pc[2] = "done"

\* C13: on the weather lookup and on the weather summary, a location that is
\* empty or whose length is outside 2..100 fails with code 400 and no
\* outbound call is made.
C13_InvalidLocationRejected ==
    ( /\ wreq.op \in ServiceOps
      /\ \/ wreq.location = <<>>
         \/ ByteLen(wreq.location) < MinLocationLen
         \/ ByteLen(wreq.location) > MaxLocationLen )
    => /\ wpc = "done"
       /\ wreq.calls = <<>>
       /\ wreq.err # Nil
       /\ wreq.err.code = 400
       /\ wreq.weather = Nil
       /\ wreq.summary = Nil

\* C14: GetCoordinatesWithCache on a city name that, trimmed and in lower
\* case, is a key of the city table returns the table's coordinates and
\* country with no error and makes no outbound call; for Stuttgart these
\* are 48.7758, 9.1829 and Germany.
C14_CacheHitNoCall ==
    LET key == ToLower(TrimSpace(wreq.location)) IN
    ( /\ wreq.op = "GetCoordinatesWithCache"
      /\ key \in DOMAIN CityCoordinates )
    => /\ wpc = "done"
       /\ wreq.calls = <<>>
       /\ wreq.err = Nil
       /\ wreq.geocoded.err = Nil
       /\ wreq.geocoded.coords = CityCoordinates[key].Coords
       /\ wreq.geocoded.country = CityCoordinates[key].Country
       /\ key = CityStuttgart =>
              /\ wreq.geocoded.coords.Latitude = 4877580
              /\ wreq.geocoded.coords.Longitude = 918290
              /\ wreq.geocoded.country = "Germany"

\* " STUTTGART " was resolved from the table
C14_Witness ==
    /\ wpc = "done"
    /\ wreq.op = "GetCoordinatesWithCache"
    /\ wreq.location = <<" ","S","T","U","T","T","G","A","R","T"," ">>
    /\ wreq.geocoded.coords = [Latitude |-> 4877580, Longitude |-> 918290]
    /\ wreq.calls = <<>>

\* a geocoder call that the city table does not answer
CacheMiss ==
    \/ wreq.op = "GetCoordinates"
    \/ /\ wreq.op = "GetCoordinatesWithCache"
       /\ ToLower(TrimSpace(wreq.location)) \notin DOMAIN CityCoordinates

GeocodeFailedWith(message, code) ==
    /\ wreq.err = NewAPIError("Geocoding", message, code)
    /\ wreq.geocoded.coords = Nil
    /\ wreq.geocoded.country = ""

\* C15: on a cache miss a city name that is empty once trimmed fails with
\* code 400 and no call; any other makes exactly one lookup request, and
\* fails as an upstream error on a transport error or a status other than
\* 200, as a parse error on an undecodable body, with 404 on an empty
\* result list, and otherwise returns the first result's coordinates and
\* country.
C15_GeocodeOnMiss ==
    CacheMiss =>
        IF TrimSpace(wreq.location) = <<>>
        THEN /\ wpc = "done"
             /\ wreq.calls = <<>>
             /\ GeocodeFailedWith("City name cannot be empty", 400)
        ELSE /\ wpc \in {"geo", "done"}
             /\ Len(wreq.calls) = 1
             /\ wreq.calls[1].to = "geocoding"
             /\ wreq.calls[1].name = wreq.location
             /\ wpc = "done" =>
                  LET r == wreq.georesp IN
                  CASE r.kind = "neterr" ->
                         GeocodeFailedWith("Failed to make request", 500)
                    [] r.kind = "http" /\ r.code # 200 ->
                         GeocodeFailedWith("API returned status", r.code)
                    [] r.kind = "http" /\ r.code = 200 /\ ~r.decodable ->
                         GeocodeFailedWith("Failed to parse response", 500)
                    [] r.kind = "http" /\ r.code = 200 /\ r.decodable
                       /\ r.body.Results = <<>> ->
                         GeocodeFailedWith("City not found", 404)
                    [] OTHER ->
                         /\ wreq.err = Nil
                         /\ wreq.geocoded.err = Nil
                         /\ wreq.geocoded.coords.Latitude =
                               Head(r.body.Results).Latitude
                         /\ wreq.geocoded.coords.Longitude =
                               Head(r.body.Results).Longitude
                         /\ wreq.geocoded.country =
                               Head(r.body.Results).Country

\* Atlantis was looked up, two results came back, the first was returned
C15_Witness ==
    /\ wpc = "done"
    /\ wreq.op = "GetCoordinatesWithCache"
    /\ wreq.location = LocAtlantis
    /\ Len(wreq.calls) = 1
    /\ Len(wreq.georesp.body.Results) = 2
    /\ wreq.geocoded.country = "Utopia"

\* the operations that run Client.GetWeatherByCity
ByCityOps == ServiceOps \cup {"GetWeatherByCity"}

\* C16: GetWeatherByCity resolves the coordinates first.  When the geocoder
\* fails its error is returned as it is and no weather request is made; a
\* weather request is the last call, comes after the geocoding request when
\* the city table did not answer, and carries the resolved coordinates with
\* four decimals; the reading returned carries the resolved coordinates.
C16_GeocodeBeforeWeather ==
    wreq.op \in ByCityOps =>
        /\ \A i \in DOMAIN wreq.calls :
              wreq.calls[i].to = "open-meteo" =>
                 /\ i = Len(wreq.calls)
                 /\ \A j \in 1..(i - 1) : wreq.calls[j].to = "geocoding"
                 /\ i = IF CacheHit(wreq.location) THEN 1 ELSE 2
                 /\ wreq.geocoded.err = Nil
                 /\ wreq.geocoded.coords # Nil
                 /\ wreq.calls[i].latitude =
                       Format4(wreq.geocoded.coords.Latitude)
                 /\ wreq.calls[i].longitude =
                       Format4(wreq.geocoded.coords.Longitude)
        /\ wreq.geocoded.err # Nil =>
              /\ wpc = "done"
              /\ wreq.err = wreq.geocoded.err
              /\ wreq.err.service = "Geocoding"
              /\ wreq.weather = Nil
              /\ \A i \in DOMAIN wreq.calls : wreq.calls[i].to = "geocoding"
        /\ wpc = "weather" =>
              /\ wreq.calls # <<>>
              /\ wreq.calls[Len(wreq.calls)].to = "open-meteo"
        /\ (wpc = "done" /\ wreq.weather # Nil) =>
              /\ wreq.weather.Coordinates = wreq.geocoded.coords
              /\ wreq.weather.Country = wreq.geocoded.country
              /\ wreq.weather.City = wreq.location

\* Atlantis was geocoded to 12.34567, -76.54321 and the weather was then
\* requested for 12.3457, -76.5432
C16_Witness ==
    /\ wpc = "done"
    /\ wreq.op = "GetWeatherByCity"
    /\ wreq.location = LocAtlantis
    /\ Len(wreq.calls) = 2
    /\ wreq.calls[1].to = "geocoding"
    /\ wreq.calls[2] = [to |-> "open-meteo", name |-> <<>>,
                        latitude |-> 123457, longitude |-> -765432]
    /\ wreq.weather # Nil

\* the kind of an error, by the place that built it
InvalidInputMessages ==
    {"Location cannot be empty", "City name cannot be empty",
     "Location must be at least 2 characters long",
     "Location must be less than 100 characters"}

NotFoundMessages == {"City not found"}

UpstreamErrorMessages == {"Failed to make request", "API returned status"}

ParseErrorMessages == {"Failed to parse response"}

\* C17: the error a weather operation returns carries the code the handler
\* writes as the status: 400 for an invalid input, 404 for a city not found,
\* and a 5xx code for an upstream error and for a parse error.
C17_CodeByKind ==
    (wpc = "done" /\ wreq.err # Nil) =>
        /\ HandlerStatus(wreq.err) = wreq.err.code
        /\ wreq.err.message \in InvalidInputMessages \cup NotFoundMessages
               \cup UpstreamErrorMessages \cup ParseErrorMessages
        /\ wreq.err.message \in InvalidInputMessages => wreq.err.code = 400
        /\ wreq.err.message \in NotFoundMessages => wreq.err.code = 404
        /\ wreq.err.message \in UpstreamErrorMessages =>
               wreq.err.code \in 500..599
        /\ wreq.err.message \in ParseErrorMessages =>
               wreq.err.code \in 500..599

\* the codes of the fixed table
TableCodes == {0, 1, 2, 3, 45, 48, 51, 53, 55, 61, 63, 65, 71, 73, 75,
               95, 96, 99}

\* the condition each code of the table stands for
ConditionOf(code) ==
    CASE code = 0 -> "clear"
      [] code \in {1, 2} -> "partly_cloudy"
      [] code = 3 -> "cloudy"
      [] code \in {45, 48} -> "fog"
      [] code \in {51, 53, 55} -> "drizzle"
      [] code \in {61, 63, 65} -> "rain"
      [] code \in {71, 73, 75} -> "snow"
      [] code \in {95, 96, 99} -> "thunderstorm"

\* the reading of a request and the weather code it was mapped from
Mapped(req) == req.weather # Nil

CodeOf(req) == req.wresp.body.WeatherCode

PairOf(req) == <<req.weather.Condition, req.weather.Description>>

\* C18: a decodable 200 answer always gives a reading; its condition and
\* description are the table's pair for a code of the table and unknown,
\* "Unknown weather condition" for every other code; two readings mapped
\* from the same code carry the same pair.
C18_WeatherConditionTotal ==
    /\ ( /\ wpc = "done"
         /\ wreq.wresp.kind = "http"
         /\ wreq.wresp.code = 200
         /\ wreq.wresp.decodable ) => (Mapped(wreq) /\ wreq.err = Nil)
    /\ \A req \in {wreq, wprev} :
          Mapped(req) =>
             IF CodeOf(req) \in TableCodes
             THEN /\ PairOf(req)[1] = ConditionOf(CodeOf(req))
                  /\ PairOf(req)[2] = WeatherCodeMap[CodeOf(req)].Description
                  /\ PairOf(req)[2] # "Unknown weather condition"
                  /\ CodeOf(req) = 0 => PairOf(req)[2] = "Clear sky"
                  /\ CodeOf(req) = 3 => PairOf(req)[2] = "Overcast"
                  /\ CodeOf(req) = 99 =>
                        PairOf(req)[2] = "Thunderstorm with heavy hail"
             ELSE PairOf(req) = <<"unknown", "Unknown weather condition">>
    /\ (Mapped(wreq) /\ Mapped(wprev) /\ CodeOf(wreq) = CodeOf(wprev)) =>
          PairOf(wreq) = PairOf(wprev)

\* two lookups of Stuttgart were both answered with code 4, which is not in
\* the table, and both read unknown
C18_Witness ==
    /\ wpc = "done"
    /\ Mapped(wprev)
    /\ Mapped(wreq)
    /\ CodeOf(wprev) = 4
    /\ CodeOf(wreq) = 4
    /\ PairOf(wreq) = <<"unknown", "Unknown weather condition">>

MarketStates == {"REGULAR", "PRE", "POST", "CLOSED"}

\* C19: every quote returned, mapped or simulated, has a market state among
\* REGULAR, PRE, POST, CLOSED; a mapped quote has the upstream state when
\* that is one of the four and CLOSED for every other upstream string.
C19_MarketStateEnum ==
    \A c \in Callers :
        (pc[c] = "done" /\ result[c].stock # Nil) =>
            /\ result[c].stock.MarketState \in MarketStates
            /\ result[c].stock.Source = YahooSource =>
                  LET ms == resp[c].body.Result[1].MarketState IN
                  result[c].stock.MarketState =
                     IF ms \in MarketStates THEN ms ELSE "CLOSED"

\* an upstream quote with the market state PREPRE was returned as CLOSED
C19_Witness ==
    \E c \in Callers :
        /\ pc[c] = "done"
        /\ result[c].stock # Nil
        /\ result[c].stock.Source = YahooSource
        /\ resp[c].body.Result[1].MarketState = "PREPRE"
        /\ result[c].stock.MarketState = "CLOSED"

RegularHours == 9..15
PreHours == 4..8
PostHours == 16..19
ClosedHours == (20..23) \cup (0..3)

Bands ==
    [REGULAR |-> RegularHours, PRE |-> PreHours,
     POST |-> PostHours, CLOSED |-> ClosedHours]

\* the bands an hour falls in
BandsOf(hour) == {b \in DOMAIN Bands : hour \in Bands[b]}

\* C21: the market state of a simulated quote is the band of the hour of
\* the call, REGULAR for 9..15, PRE for 4..8, POST for 16..19 and CLOSED for
\* 20..23 and 0..3, whatever the symbol and the minute; every hour of the
\* day falls in exactly one band.
C21_MarketStateByHour ==
    /\ \A hour \in HoursOfDay : Cardinality(BandsOf(hour)) = 1
    /\ \A i \in DOMAIN demoLog :
          demoLog[i].stock # Nil =>
             /\ BandsOf(demoLog[i].hour) = {demoLog[i].stock.MarketState}
             /\ demoLog[i].values.MarketState = demoLog[i].stock.MarketState

\* a quote simulated at hour 16 is POST
C21_Witness ==
    /\ Len(demoLog) = 1
    /\ demoLog[1].hour = 16
    /\ demoLog[1].stock # Nil
    /\ demoLog[1].stock.MarketState = "POST"

(***************************************************************************)
(* The direction of the change.                                            *)
(***************************************************************************)
Asked == output.op \in {"mapped", "simulated"}

\* C22: for every quote GetChangeDirection is "up" when the change is
\* above zero, "down" when it is below and "neutral" when it is zero, and
\* IsPositiveChange holds exactly when the change is above zero; the quote
\* mapped from an answer with regularMarketChange -1.23 gives "down" and
\* false.
C22_ChangeDirection ==
    Asked =>
       /\ output.change > 0 => output.direction = "up"
       /\ output.change < 0 => output.direction = "down"
       /\ output.change = 0 => output.direction = "neutral"
       /\ output.positive <=> output.change > 0
       /\ (output.op = "mapped" /\ output.stock.Change = -123) =>
             output.direction = "down" /\ ~output.positive

\* a mapped quote with no change was asked: neutral, not positive
C22_Witness ==
    /\ output.op = "mapped"
    /\ output.stock.Change = 0
    /\ output.direction = "neutral"
    /\ ~output.positive

(***************************************************************************)
(* The burst of concurrent callers.                                        *)
(***************************************************************************)
MaxBurstDuration == 3

AllowedFailures == 2

\* when caller c left the gate; it started at 0 and returns no earlier
GatePassedAt(c) ==
    gateLog[CHOOSE i \in DOMAIN gateLog : gateLog[i].caller = c].at

\* the callers whose goroutine reports an error: the call failed, or it
\* took longer than MaxBurstDuration
BurstErrors ==
    {c \in BurstCallers :
        \/ result[c].err # Nil
        \/ GatePassedAt(c) > MaxBurstDuration}

\* C23: when NumGoroutines callers call GetCurrentPrice("DDOG") on one
\* service within the first second and the upstream answers each with a
\* quote, at most AllowedFailures of the calls fail or take longer than
\* MaxBurstDuration seconds.
C23_BurstWithinThreeSeconds ==
    (\A c \in BurstCallers : pc[c] = "done") =>
        Cardinality(BurstErrors) <= AllowedFailures

(***************************************************************************)
(* What requests share.  The city table and the demo table are read by     *)
(* every request and written by none (geocode.go and demo.go hold no       *)
(* assignment to CityCoordinates or DemoStockData), so they are the        *)
(* constants CityCoordinates and DemoStockData here; what is left of the   *)
(* Service between calls is lastRequest and the unlocked mutex.            *)
(***************************************************************************)
\* the weather request under way was made before, and has returned again
AskedTwice ==
    /\ wpc = "done"
    /\ wprev # NoRequest
    /\ wprev.op = wreq.op
    /\ wprev.location = wreq.location

ValidatedWeatherDone ==
    /\ wpc = "done"
    /\ wreq.op = "GetWeatherWithValidation"
    /\ ValidateLocation(wreq.location) = Nil

\* a quote request that passed Client.ValidateSymbol has returned to c
ValidatedStockDone(c) ==
    /\ pc[c] = "done"
    /\ ValidateSymbol(symbol[c]) = Nil

\* C25 as stated: every request that passed validation made exactly one
\* outbound call before it returned.
C25_ExactlyOneCall ==
    /\ ValidatedWeatherDone => Len(wreq.calls) = 1
    /\ \A c \in FetchCallers :
          ValidatedStockDone(c) => Cardinality(RequestsOf(c)) = 1

\* C25, amended: a quote request that passed validation made exactly one
\* outbound call and returned after its answer.  A weather request that
\* passed validation made the weather call alone when the city is in the
\* table; otherwise no call when the location is blank, the geocoding call
\* alone when geocoding failed, and the geocoding call followed by the
\* weather call when it succeeded; it returned after the answer to its
\* last call.
C25_CallsPerRequest ==
    /\ ValidatedWeatherDone =>
          LET loc == wreq.location IN
          /\ wreq.calls =
                IF CacheHit(loc)
                THEN <<WeatherCallFor(CachedGeocode(loc).coords)>>
                ELSE IF TrimSpace(loc) = <<>> THEN <<>>
                ELSE IF wreq.geocoded.err # Nil THEN <<GeocodeCall(loc)>>
                ELSE <<GeocodeCall(loc),
                       WeatherCallFor(wreq.geocoded.coords)>>
          /\ \A i \in DOMAIN wreq.calls :
                IF wreq.calls[i].to = "geocoding"
                THEN wreq.georesp # NoResponse
                ELSE wreq.wresp # NoResponse
    /\ \A c \in FetchCallers :
          ValidatedStockDone(c) =>
             /\ Cardinality(RequestsOf(c)) = 1
             /\ resp[c] # NoResponse

\* the weather of Atlantis was returned after a geocoding call and a
\* weather call, and caller 1 got its quote by one request
C25_Witness ==
    /\ ValidatedWeatherDone
    /\ wprev = NoRequest
    /\ wreq.location = LocAtlantis
    /\ wreq.weather # Nil
    /\ Len(wreq.calls) = 2
    /\ ValidatedStockDone(1)
    /\ Cardinality(RequestsOf(1)) = 1

(***************************************************************************)
(* The gate comes before the validation.                                   *)
(***************************************************************************)
\* the call of c has returned the validator's error
RejectedDone(c) ==
    /\ pc[c] = "done"
    /\ ValidateSymbol(symbol[c]) # Nil

\* the passages of the gate by c
PassagesOf(c) == {j \in DOMAIN gateLog : gateLog[j].caller = c}

\* C26: a GetCurrentPrice call rejected by the validator returns code 400
\* having made no outbound request, and yet it has passed the gate once: it
\* recorded its call time no earlier than MinDelay after the last-call
\* time it read, and the caller that passes the gate next records its own
\* no earlier than MinDelay after that.
C26_RejectedCallPassesGate ==
    \A c \in FetchCallers :
        RejectedDone(c) =>
           /\ result[c].stock = Nil
           /\ result[c].err # Nil /\ result[c].err.code = 400
           /\ RequestsOf(c) = {}
           /\ Cardinality(PassagesOf(c)) = 1
           /\ \A j \in PassagesOf(c) :
                 /\ gateLog[j].read # ZeroTime =>
                       gateLog[j].at >= gateLog[j].read + MinDelay
                 /\ j < Len(gateLog) =>
                       /\ gateLog[j + 1].read = gateLog[j].at
                       /\ gateLog[j + 1].at >= gateLog[j].at + MinDelay

\* caller 1 passed a symbol with a digit and was rejected without a
\* request; caller 2, next at the gate, slept MinDelay seconds for it
C26_Witness ==
    /\ RejectedDone(1)
    /\ requests # <<>>
    /\ RequestsOf(1) = {}
    /\ Len(gateLog) = 2
    /\ gateLog[1].caller = 1
    /\ gateLog[2].caller = 2
    /\ gateLog[2].slept
    /\ gateLog[2].at = gateLog[1].at + MinDelay

(***************************************************************************)
(* The symbol the fallback looks up.                                       *)
(***************************************************************************)
\* c passed an accepted symbol that is a demo symbol only once normalized
DemoOnlyNormalized(c) ==
    /\ ValidateSymbol(symbol[c]) = Nil
    /\ symbol[c] \notin DOMAIN DemoStockData
    /\ RequestSymbol(symbol[c]) \in DOMAIN DemoStockData

\* C27: the upstream request carries the normalized symbol while the demo
\* table is searched for the symbol as passed: a call with an accepted
\* symbol that is a demo symbol only once normalized returns the original
\* error when the upstream fails with 401, 403, 429 or a code from 500,
\* and a demo quote is returned only for a symbol passed exactly as one of
\* the five demo symbols.
C27_FallbackLooksUpRawSymbol ==
    \A c \in FetchCallers :
        pc[c] = "done" =>
           /\ \A q \in RequestsOf(c) :
                 requests[q].symbol = ToUpper(TrimSpace(symbol[c]))
           /\ (DemoOnlyNormalized(c) /\ HandleResponse(resp[c]).err # Nil
                  /\ IsFallbackCode(HandleResponse(resp[c]).err.code)) =>
                 /\ result[c].stock = Nil
                 /\ result[c].err = HandleResponse(resp[c]).err
           /\ (result[c].stock # Nil
                  /\ result[c].stock.Source = DemoSource) =>
                 symbol[c] \in {SymDDOG, SymAAPL, SymGOOGL, SymMSFT, SymTSLA}

\* "ddog" was requested as DDOG, the upstream answered 429, and the caller
\* got the 429 error
C27_Witness ==
    /\ pc[1] = "done"
    /\ symbol[1] = <<"d","d","o","g">>
    /\ \E q \in RequestsOf(1) : requests[q].symbol = SymDDOG
    /\ resp[1].code = 429
    /\ result[1].stock = Nil
    /\ result[1].err.code = 429

(***************************************************************************)
(* The lock and the outbound request.                                      *)
(***************************************************************************)
\* the transport has not yet answered the request of c
InFlight(c) == pc[c] = "http"

\* C28: the mutex is held by a caller only between Lock and Unlock of
\* rateLimitDelay, never while its outbound request is prepared or in
\* flight; so a caller waiting for the lock finds it free whenever no
\* caller is in the gate, whatever requests are in flight.
C28_LockOnlyInGate ==
    /\ \A c \in Callers : mutex = c <=> InGate(c)
    /\ \A c \in Callers : (pc[c] = "fetch" \/ InFlight(c)) => mutex # c
    /\ \A c \in Callers :
          (pc[c] = "lock" /\ \A d \in Callers : ~InGate(d)) => ENABLED Lock(c)

\* the requests of two callers are in flight while a third is in the gate
C28_Witness ==
    /\ InFlight(1)
    /\ InFlight(2)
    /\ InGate(3)
    /\ mutex = 3
    /\ Len(requests) = 2

(***************************************************************************)
(* Every call returns.                                                     *)
(***************************************************************************)
Started(c) == pc[c] # "idle"

Returned(c) == pc[c] = "done"

\* C29: when the transport answers every request and the mutex is granted
\* to every caller that keeps asking for it, every GetCurrentPrice call
\* that was started returns in the end, however many callers there are;
\* on the way a sleep never lasts longer than MinDelay.
C29_EveryCallReturns ==
    /\ \A c \in Callers : Started(c) ~> Returned(c)
    /\ [](\A c \in Callers : pc[c] = "sleep" => wake[c] - now <= MinDelay)

\* every caller has returned, the last of them after a sleep in the gate
C29_Witness ==
    /\ \A c \in Callers : Returned(c)
    /\ Len(gateLog) = NumCallers
    /\ gateLog[NumCallers].slept

(***************************************************************************)
(* What a call returns.                                                    *)
(***************************************************************************)
\* the transport answered c with 200 and a body that holds a quote
MappedFrom200(c) ==
    /\ resp[c].kind = "http" /\ resp[c].code = 200 /\ resp[c].decodable
    /\ Len(resp[c].body.Result) > 0

\* the fetch of c failed with a recovered code and the demo table holds the
\* symbol as c passed it
FallbackTaken(c) ==
    /\ resp[c].kind # "none"
    /\ HandleResponse(resp[c]).err # Nil
    /\ IsFallbackCode(HandleResponse(resp[c]).err.code)
    /\ symbol[c] \in DOMAIN DemoStockData

\* C30: a GetCurrentPrice call returns a quote or an error, never both and
\* never neither; the source of a returned quote is "Yahoo Finance" exactly
\* when the quote was mapped from a 200 answer, "Demo Mode (Simulated
\* Data)" exactly when the fallback was taken, and nothing else.
C30_QuoteOrErrorAndSource ==
    \A c \in FetchCallers :
        pc[c] = "done" =>
           /\ (result[c].stock = Nil) # (result[c].err = Nil)
           /\ result[c].stock # Nil =>
                 /\ result[c].stock.Source \in {YahooSource, DemoSource}
                 /\ result[c].stock.Source = YahooSource <=> MappedFrom200(c)
                 /\ result[c].stock.Source = DemoSource <=> FallbackTaken(c)
           /\ MappedFrom200(c) =>
                 result[c].stock = ConvertYahooFinanceResponse(
                                      resp[c].body).stock
           /\ FallbackTaken(c) =>
                 /\ result[c].stock # Nil
                 /\ result[c].stock.Source = DemoSource

\* caller 1 got a simulated quote of MSFT after a 401 and caller 2 the
\* error of its 404
C30_Witness ==
    /\ pc[1] = "done" /\ pc[2] = "done"
    /\ symbol[1] = SymMSFT
    /\ resp[1].code = 401
    /\ result[1].err = Nil
    /\ result[1].stock.Source = DemoSource
    /\ result[2].stock = Nil
    /\ result[2].err.code = 404

====
